---- MODULE Spec2Model ----
(***************************************************************************)
(* Constant propagation over the typed AST (Propagator), and the           *)
(* directive optimiser over the IR (DirectiveOptimizer).                   *)
(*                                                                         *)
(* Expressions are records tagged by k.  Every node carries the            *)
(* Option<Span> of the Rust node in its span field: <<>> is None and <<s>> *)
(* is Some(s).  Derived PartialEq / PartialOrd of the Rust nodes compare   *)
(* the span field first, as record equality and ValueLt do here.           *)
(***************************************************************************)
EXTENDS Integers, Sequences, FiniteSets, TLC

VARIABLES
    constants,      \* Propagator.constants : Identifier -> TypedExpression
    prog,           \* the statements of main handed to fold_statement so far
    out,            \* the statements fold_statement returned so far, concatenated
    err,            \* NoErr, or the Error the pass ended with
    stmt,           \* the statement the last fold_statement call was given
    exprIn,         \* an expression handed to an expression folder
    exprOut,        \* the Result the expression folder returned for exprIn
    calls,          \* DirectiveOptimizer.calls
    substitution,   \* DirectiveOptimizer.substitution
    dprog,          \* the IR statements handed to DirectiveOptimizer so far
    dout,           \* the IR statements DirectiveOptimizer returned so far
    irProg,         \* the ir::Prog handed to the libsnark preparation
    lowered,        \* what the libsnark preparation returned for irProg
    flatIn,         \* a flat expression and the substitution applied to it
    flatOut,        \* what the flat expression operation returned for flatIn
    idxMap,         \* r1cs_program's `variables` : Variable -> column index
    idxCalls        \* the provide_variable_idx calls made so far and what each returned

vars == <<constants, prog, out, err, stmt, exprIn, exprOut,
          calls, substitution, dprog, dout, irProg, lowered, flatIn, flatOut,
          idxMap, idxCalls>>

(***************************************************************************)
(* Bounds of the model.                                                    *)
(***************************************************************************)
\* number of bits of the prime field of the model
FieldBits == 5
\* number of statements of main
MaxStmts == 3
\* number of IR statements given to the directive optimiser
MaxIrStmts == 3

\* the largest prime below 2^bits, for the field sizes the model uses
FieldPrimes == <<2, 3, 7, 13, 31, 61, 127, 251>>
\* the modulus of the field T
P == FieldPrimes[FieldBits]

(***************************************************************************)
(* Spans, results, errors                                                  *)
(***************************************************************************)
NoSpan == <<>>
SomeSpan(s) == <<s>>

\* Option<Span> : PartialOrd, None < Some(_), Some(a) < Some(b) iff a < b
SpanLt(s1, s2) ==
    IF s1 = NoSpan THEN s2 # NoSpan
    ELSE IF s2 = NoSpan THEN FALSE
    ELSE s1[1] < s2[1]

Ok(e) == [ok |-> TRUE, e |-> e]
Err(kind, payload) == [ok |-> FALSE, err |-> [kind |-> kind, payload |-> payload]]
NoErr == [kind |-> "none", payload |-> <<>>]

\* a Rust panic (unwrap on None, division by zero, failed assert!)
Panic == Err("panic", <<>>)

(***************************************************************************)
(* Types                                                                   *)
(***************************************************************************)
FieldType == [t |-> "field"]
BooleanType == [t |-> "bool"]
UintType(w) == [t |-> "uint", w |-> w]
ArrayType(inner, n) == [t |-> "array", inner |-> inner, size |-> n]
\* a struct type with its members <<[id, ty], ..>>, a tuple type with its elements
StructType(members) == [t |-> "struct", members |-> members]
TupleType(elems) == [t |-> "tuple", elems |-> elems]

(***************************************************************************)
(* Arithmetic                                                              *)
(***************************************************************************)
RECURSIVE Pow2(_)
Pow2(n) == IF n = 0 THEN 1 ELSE 2 * Pow2(n - 1)

\* x % 2^w on u128; the integers of the model stay below 2^31, so for the
\* widths 32 and 64 the reduction of a non-negative value is the value
Wrap(x, w) == IF w >= 31 /\ x >= 0 THEN x ELSE x % Pow2(w)

RECURSIVE FieldPow(_, _)
FieldPow(b, n) == IF n = 0 THEN 1 % P ELSE (b * FieldPow(b, n - 1)) % P

FieldInv(a) == CHOOSE x \in 0 .. P - 1 : (a * x) % P = 1

RECURSIVE BitXor(_, _)
BitXor(a, b) ==
    IF a = 0 THEN b ELSE IF b = 0 THEN a
    ELSE (((a % 2) + (b % 2)) % 2) + 2 * BitXor(a \div 2, b \div 2)

RECURSIVE BitAnd(_, _)
BitAnd(a, b) ==
    IF a = 0 \/ b = 0 THEN 0
    ELSE ((a % 2) * (b % 2)) + 2 * BitAnd(a \div 2, b \div 2)

Max(a, b) == IF a >= b THEN a ELSE b

(***************************************************************************)
(* Typed expression nodes                                                  *)
(***************************************************************************)
\* FieldElementExpression::Number(ValueExpression { span, value })
Number(v, sp) == [k |-> "Number", value |-> v, span |-> sp]
\* UExpressionInner::Value(..).annotate(w)
UValue(v, sp, w) == [k |-> "UValue", value |-> v, span |-> sp, bitwidth |-> w]
\* BooleanExpression::Value(ValueExpression { span, value })
BValue(b, sp) == [k |-> "BValue", bvalue |-> b, span |-> sp]
\* X::Identifier(IdentifierExpression { span, id }) of type ty
Identifier(id, ty, sp) == [k |-> "Identifier", id |-> id, ty |-> ty, span |-> sp]
\* a binary node of the field and boolean families
Binary(op, l, r, sp) == [k |-> op, left |-> l, right |-> r, span |-> sp]
\* a unary node of the field and boolean families
Unary(op, e, sp) == [k |-> op, inner |-> e, span |-> sp]
\* a binary node of the uint family, annotated with its bitwidth
UBinary(op, l, r, sp, w) ==
    [k |-> op, left |-> l, right |-> r, span |-> sp, bitwidth |-> w]
\* a unary node of the uint family
UUnary(op, e, sp, w) == [k |-> op, inner |-> e, span |-> sp, bitwidth |-> w]
\* ConditionalExpression::new(condition, consequence, alternative, kind)
Conditional(c, a, b, kind, ty, sp) ==
    [k |-> "Conditional", condition |-> c, consequence |-> a, alternative |-> b,
     kind |-> kind, ty |-> ty, span |-> sp]
\* SelectExpression::new(array, index), selecting an element of type ty
Select(a, i, ty, sp) == [k |-> "Select", array |-> a, index |-> i, ty |-> ty, span |-> sp]
\* ArrayExpressionInner::Value(elems).annotate(inner, size)
ArrayValue(elems, inner, size, sp) ==
    [k |-> "ArrayValue", elems |-> elems, inner |-> inner, size |-> size, span |-> sp]
\* ArrayExpressionInner::Identifier(id).annotate(inner, size)
ArrayIdentifier(id, inner, size, sp) ==
    [k |-> "ArrayIdentifier", id |-> id, inner |-> inner, size |-> size, span |-> sp]
\* TypedExpressionOrSpread::Spread(TypedSpread { array })
Spread(a) == [k |-> "Spread", array |-> a]

UintBinaryKinds == {"UAdd", "USub", "UFloorSub", "UMult", "UDiv", "URem", "UXor", "UAnd"}
UintUnaryKinds == {"UNot", "UNeg", "UPos"}
FieldBinaryKinds == {"Add", "Sub", "Mult", "Div"}
FieldUnaryKinds == {"Neg", "Pos"}
EqKinds == {"FieldEq", "UintEq", "BoolEq", "ArrayEq"}
FieldCmpKinds == {"FieldLt", "FieldLe"}
UintCmpKinds == {"UintLt", "UintLe"}
BoolBinaryKinds == {"Or", "And"}

IsNumber(e) == e.k = "Number"
IsUValue(e) == e.k = "UValue"
IsBValue(e) == e.k = "BValue"
IsArrayValue(e) == e.k = "ArrayValue"

\* UExpressionInner::annotate
Annotate(e, w) ==
    IF "bitwidth" \in DOMAIN e THEN [e EXCEPT !.bitwidth = w]
    ELSE [e EXCEPT !.ty = UintType(w)]

\* WithSpan::span : sets the span of the node itself
WithSpan(e, sp) == [e EXCEPT !.span = sp]

\* Typed::get_type, as a concrete type (array sizes are literals in the model)
RECURSIVE GetType(_)
GetType(e) ==
    IF e.k \in {"Identifier", "Conditional", "Select"} THEN e.ty
    ELSE IF "bitwidth" \in DOMAIN e THEN UintType(e.bitwidth)
    ELSE IF e.k \in {"ArrayValue", "ArrayIdentifier"} THEN ArrayType(e.inner, e.size.value)
    ELSE IF e.k \in {"Number", "Pow"} \cup FieldBinaryKinds \cup FieldUnaryKinds THEN FieldType
    ELSE BooleanType

\* Constant::is_constant
RECURSIVE IsConstant(_)
IsConstant(e) ==
    IF e.k \in {"Number", "UValue", "BValue"} THEN TRUE
    ELSE IF e.k = "ArrayValue" THEN
        \A i \in 1 .. Len(e.elems) :
            IF e.elems[i].k = "Spread" THEN IsConstant(e.elems[i].array)
            ELSE IsConstant(e.elems[i])
    ELSE FALSE

RECURSIVE FlattenElems(_)
RECURSIVE IntoCanonicalConstant(_)
\* into_canonical_constant_aux over the elements of an array value
FlattenElems(elems) ==
    IF elems = <<>> THEN <<>>
    ELSE LET h == Head(elems) IN
         (IF h.k = "Spread" THEN FlattenElems(h.array.elems)
          ELSE <<IntoCanonicalConstant(h)>>) \o FlattenElems(Tail(elems))
\* Constant::into_canonical_constant
IntoCanonicalConstant(e) ==
    IF e.k = "ArrayValue" THEN [e EXCEPT !.elems = FlattenElems(e.elems)]
    ELSE e

(***************************************************************************)
(* Propagator: uint arms of fold_uint_expression_inner, applied to the     *)
(* folded operands e1, e2 of a node of bitwidth w                          *)
(***************************************************************************)
\* a node built by UExpression::add / sub / ... : no span, annotated operands
UNode(op, e1, e2, w) == UBinary(op, Annotate(e1, w), Annotate(e2, w), NoSpan, w)
\* UExpression::from_value(v), annotated by the caller with w
UFromValue(v, w) == UValue(v, NoSpan, w)

UAddArm(e1, e2, w) ==
    IF IsUValue(e1) /\ IsUValue(e2) THEN Ok(UFromValue(Wrap(e1.value + e2.value, w), w))
    ELSE IF IsUValue(e2) THEN
        (IF e2.value = 0 THEN Ok(e1) ELSE Ok(UNode("UAdd", e1, UFromValue(e2.value, w), w)))
    ELSE IF IsUValue(e1) THEN
        (IF e1.value = 0 THEN Ok(e2) ELSE Ok(UNode("UAdd", e2, UFromValue(e1.value, w), w)))
    ELSE Ok(UNode("UAdd", e1, e2, w))

USubArm(e1, e2, w) ==
    IF IsUValue(e1) /\ IsUValue(e2) THEN Ok(UFromValue(Wrap(e1.value - e2.value, w), w))
    ELSE IF IsUValue(e2) THEN
        (IF e2.value = 0 THEN Ok(e1) ELSE Ok(UNode("USub", e1, UFromValue(e2.value, w), w)))
    ELSE Ok(UNode("USub", e1, e2, w))

UFloorSubArm(e1, e2, w) ==
    IF IsUValue(e1) /\ IsUValue(e2)
    THEN Ok(UFromValue(Wrap(Max(e1.value - e2.value, 0), w), w))
    ELSE IF IsUValue(e2) THEN
        (IF e2.value = 0 THEN Ok(e1) ELSE Ok(UNode("UFloorSub", e1, e2, w)))
    ELSE Ok(UNode("USub", e1, e2, w))

UMultArm(e1, e2, w) ==
    IF IsUValue(e1) /\ IsUValue(e2) THEN Ok(UFromValue(Wrap(e1.value * e2.value, w), w))
    ELSE IF IsUValue(e2) THEN
        (IF e2.value = 0 THEN Ok(UFromValue(0, w))
         ELSE IF e2.value = 1 THEN Ok(e1)
         ELSE Ok(UNode("UMult", e1, UFromValue(e2.value, w), w)))
    ELSE IF IsUValue(e1) THEN
        (IF e1.value = 0 THEN Ok(UFromValue(0, w))
         ELSE IF e1.value = 1 THEN Ok(e2)
         ELSE Ok(UNode("UMult", e2, UFromValue(e1.value, w), w)))
    ELSE Ok(UNode("UMult", e1, e2, w))

UDivArm(e1, e2, w) ==
    IF IsUValue(e1) /\ IsUValue(e2) THEN
        (IF e2.value = 0 THEN Panic
         ELSE Ok(UFromValue(Wrap(e1.value \div e2.value, w), w)))
    ELSE IF IsUValue(e2) THEN
        (IF e2.value = 1 THEN Ok(e1) ELSE Ok(UNode("UDiv", e1, UFromValue(e2.value, w), w)))
    ELSE Ok(UNode("UDiv", e1, e2, w))

URemArm(e1, e2, w) ==
    IF IsUValue(e1) /\ IsUValue(e2) THEN
        (IF e2.value = 0 THEN Panic
         ELSE Ok(UFromValue(Wrap(e1.value % e2.value, w), w)))
    ELSE IF IsUValue(e2) THEN
        (IF e2.value = 1 THEN Ok(UFromValue(0, w))
         ELSE Ok(UNode("URem", e1, UFromValue(e2.value, w), w)))
    ELSE Ok(UNode("URem", e1, e2, w))

UXorArm(e1, e2, w) ==
    IF IsUValue(e1) /\ IsUValue(e2) THEN Ok(UFromValue(BitXor(e1.value, e2.value), w))
    ELSE IF IsUValue(e1) /\ e1.value = 0 THEN Ok(e2)
    ELSE IF IsUValue(e2) /\ e2.value = 0 THEN Ok(e1)
    ELSE IF e1 = e2 THEN Ok(UFromValue(0, w))
    ELSE Ok(UNode("UXor", e1, e2, w))

UAndArm(e1, e2, w) ==
    IF IsUValue(e1) /\ IsUValue(e2) THEN Ok(UFromValue(BitAnd(e1.value, e2.value), w))
    ELSE IF (IsUValue(e1) /\ e1.value = 0) \/ (IsUValue(e2) /\ e2.value = 0)
    THEN Ok(UFromValue(0, w))
    ELSE Ok(UNode("UAnd", e1, e2, w))

UNotArm(e, w) ==
    IF IsUValue(e) THEN Ok(UFromValue((Pow2(w) - 1) - (e.value % Pow2(w)), w))
    ELSE Ok(UUnary("UNot", Annotate(e, w), NoSpan, w))

UNegArm(e, w) ==
    IF IsUValue(e) THEN Ok(UFromValue(Wrap(0 - e.value, w), w))
    ELSE Ok(UUnary("UNeg", Annotate(e, w), NoSpan, w))

UPosArm(e, w) ==
    IF IsUValue(e) THEN Ok(UFromValue(e.value, w))
    ELSE Ok(UUnary("UPos", Annotate(e, w), NoSpan, w))

UintShiftKinds == {"URightShift", "ULeftShift"}
\* the width of the u128 that holds a uint literal
U128Bits == 128

\* v >> by on u128, by below 128
ShiftRight(v, by) == IF by >= 31 THEN 0 ELSE v \div Pow2(by)
\* (v << by) & (2^w - 1) on u128, by below 128: the bits at and above w are
\* masked off
ShiftLeftMasked(v, by, w) == IF by >= w THEN 0 ELSE (v * Pow2(by)) % Pow2(w)

\* UExpressionInner::RightShift arm.  A shift of a u128 by 128 or more
\* panics when the build checks overflow and shifts by the amount modulo
\* 128 when it does not.
URightShiftArm(e1, e2, w, overflow_checks) ==
    IF IsUValue(e1) /\ IsUValue(e2) THEN
        (IF e2.value >= U128Bits /\ overflow_checks THEN Panic
         ELSE Ok(UFromValue(ShiftRight(e1.value, e2.value % U128Bits), w)))
    ELSE Ok(UBinary("URightShift", Annotate(e1, w), Annotate(e2, 32), NoSpan, w))

\* UExpressionInner::LeftShift arm
ULeftShiftArm(e1, e2, w, overflow_checks) ==
    IF IsUValue(e1) /\ IsUValue(e2) THEN
        (IF e2.value >= U128Bits /\ overflow_checks THEN Panic
         ELSE Ok(UFromValue(ShiftLeftMasked(e1.value, e2.value % U128Bits, w), w)))
    ELSE Ok(UBinary("ULeftShift", Annotate(e1, w), Annotate(e2, 32), NoSpan, w))

UintShiftArm(op, e1, e2, w, overflow_checks) ==
    IF op = "URightShift" THEN URightShiftArm(e1, e2, w, overflow_checks)
    ELSE ULeftShiftArm(e1, e2, w, overflow_checks)

UintBinaryArm(op, e1, e2, w) ==
    CASE op = "UAdd" -> UAddArm(e1, e2, w)
      [] op = "USub" -> USubArm(e1, e2, w)
      [] op = "UFloorSub" -> UFloorSubArm(e1, e2, w)
      [] op = "UMult" -> UMultArm(e1, e2, w)
      [] op = "UDiv" -> UDivArm(e1, e2, w)
      [] op = "URem" -> URemArm(e1, e2, w)
      [] op = "UXor" -> UXorArm(e1, e2, w)
      [] op = "UAnd" -> UAndArm(e1, e2, w)

UintUnaryArm(op, e, w) ==
    CASE op = "UNot" -> UNotArm(e, w)
      [] op = "UNeg" -> UNegArm(e, w)
      [] op = "UPos" -> UPosArm(e, w)

(***************************************************************************)
(* Propagator: arms of fold_field_expression, applied to the folded        *)
(* operands of a node whose span is sp                                     *)
(***************************************************************************)
\* T : Add, Sub, Mul, Div of the field
FieldOp(op, a, b) ==
    CASE op = "Add" -> (a + b) % P
      [] op = "Sub" -> (a - b) % P
      [] op = "Mult" -> (a * b) % P
      [] op = "Div" -> (a * FieldInv(b)) % P

FieldBinaryArm(op, e1, e2, sp) ==
    IF IsNumber(e1) /\ IsNumber(e2) THEN
        (IF op = "Div" /\ e2.value = 0 THEN Panic
         ELSE Ok(Number(FieldOp(op, e1.value, e2.value), sp)))
    ELSE Ok(Binary(op, e1, e2, sp))

FieldNegArm(e) ==
    IF IsNumber(e) THEN Ok(Number((0 - e.value) % P, NoSpan))
    ELSE Ok(Unary("Neg", e, NoSpan))

FieldPosArm(e) ==
    IF IsNumber(e) THEN Ok(e) ELSE Ok(Unary("Pos", e, NoSpan))

\* FieldElementExpression::Pow arm: e1 the folded base, e2 the folded exponent
\* a variant of the Pow arm without the rule for the exponent 0
PowArmWithoutZeroRule(e1, e2) ==
    IF IsNumber(e1) /\ IsUValue(e2) THEN Ok(Number(FieldPow(e1.value, e2.value), NoSpan))
    ELSE IF IsUValue(e2) THEN Ok(Binary("Pow", e1, UFromValue(e2.value, 32), NoSpan))
    ELSE Err("NonConstantExponent", <<>>)

PowArm(e1, e2) ==
    IF IsUValue(e2) /\ e2.value = 0 THEN Ok(Number(1 % P, NoSpan))
    ELSE IF IsNumber(e1) /\ IsUValue(e2) THEN Ok(Number(FieldPow(e1.value, e2.value), NoSpan))
    ELSE IF IsUValue(e2) THEN Ok(Binary("Pow", e1, UFromValue(e2.value, 32), NoSpan))
    ELSE Err("NonConstantExponent", <<>>)

(***************************************************************************)
(* Propagator: arms of fold_boolean_expression                             *)
(***************************************************************************)
BFromValue(b) == BValue(b, NoSpan)

\* a variant of the FieldLt / FieldLe arms comparing strictly in both
FieldCmpArmStrict(op, e1, e2) ==
    IF IsNumber(e1) /\ IsNumber(e2) THEN Ok(BFromValue(e1.value < e2.value))
    ELSE Ok(Binary(op, e1, e2, NoSpan))

\* the FieldLt and FieldLe arms of fold_boolean_expression
FieldCmpArm(op, e1, e2) ==
    IF IsNumber(e1) /\ IsNumber(e2) THEN
        Ok(BFromValue(IF op = "FieldLt" THEN e1.value < e2.value ELSE e1.value <= e2.value))
    ELSE Ok(Binary(op, e1, e2, NoSpan))

UintCmpArm(op, e1, e2) ==
    IF IsUValue(e1) /\ IsUValue(e2) THEN
        Ok(BFromValue(IF op = "UintLt" THEN e1.value < e2.value ELSE e1.value <= e2.value))
    ELSE Ok(Binary(op, e1, e2, NoSpan))

OrArm(e1, e2) ==
    IF IsBValue(e1) /\ IsBValue(e2) THEN Ok(BFromValue(e1.bvalue \/ e2.bvalue))
    ELSE IF (IsBValue(e2) /\ e2.bvalue) \/ (IsBValue(e1) /\ e1.bvalue) THEN Ok(BFromValue(TRUE))
    ELSE IF IsBValue(e2) THEN Ok(e1)
    ELSE IF IsBValue(e1) THEN Ok(e2)
    ELSE Ok(Binary("Or", e1, e2, NoSpan))

AndArm(e1, e2) ==
    IF IsBValue(e1) /\ IsBValue(e2) THEN Ok(BFromValue(e1.bvalue /\ e2.bvalue))
    ELSE IF IsBValue(e2) /\ e2.bvalue THEN Ok(e1)
    ELSE IF IsBValue(e1) /\ e1.bvalue THEN Ok(e2)
    ELSE IF IsBValue(e2) \/ IsBValue(e1) THEN Ok(BFromValue(FALSE))
    ELSE Ok(Binary("And", e1, e2, NoSpan))

NotArm(e) ==
    IF IsBValue(e) THEN Ok(BFromValue(~e.bvalue)) ELSE Ok(Unary("Not", e, NoSpan))

\* fold_eq_expression, on the folded operands
EqArm(op, left, right) ==
    IF GetType(left) # GetType(right) THEN Err("Type", <<>>)
    ELSE IF left = right THEN Ok(BFromValue(TRUE))
    ELSE IF IsConstant(left) /\ IsConstant(right)
    THEN Ok(BFromValue(IntoCanonicalConstant(left) = IntoCanonicalConstant(right)))
    ELSE Ok(Binary(op, left, right, NoSpan))

\* fold_conditional_expression, on the folded condition and branches
\* a variant of fold_conditional_expression without the rule for equal branches
ConditionalArmWithoutMerge(condition, consequence, alternative, kind, ty) ==
    IF IsBValue(condition) /\ condition.bvalue THEN Ok(consequence)
    ELSE IF IsBValue(condition) /\ ~condition.bvalue THEN Ok(alternative)
    ELSE Ok(Conditional(condition, consequence, alternative, kind, ty, NoSpan))

ConditionalArm(condition, consequence, alternative, kind, ty) ==
    IF IsBValue(condition) /\ condition.bvalue THEN Ok(consequence)
    ELSE IF IsBValue(condition) /\ ~condition.bvalue THEN Ok(alternative)
    ELSE IF consequence = alternative THEN Ok(consequence)
    ELSE Ok(Conditional(condition, consequence, alternative, kind, ty, NoSpan))

(***************************************************************************)
(* Propagator: fold_select_expression                                      *)
(***************************************************************************)
\* ValueExpression<u128> : derived PartialOrd, the span first and then the value
ValueLt(n, size) ==
    IF n.span # size.span THEN SpanLt(n.span, size.span) ELSE n.value < size.value

\* ArrayValue::expression_at : Option
ExpressionAt(v, n) ==
    IF n + 1 <= Len(v) /\ v[n + 1].k # "Spread" THEN Ok(v[n + 1]) ELSE Panic

\* fold_select_expression on the folded array and index; C the constants
SelectArm(array, index, ty, C) ==
    LET size == array.size IN
    IF IsArrayValue(array) /\ IsUValue(index) THEN
        (IF ValueLt(index, size) THEN ExpressionAt(array.elems, index.value)
         ELSE Err("OutOfBounds", <<index.value, size.value>>))
    ELSE IF array.k = "ArrayIdentifier" /\ IsUValue(index) THEN
        (IF array.id \in DOMAIN C THEN ExpressionAt(C[array.id].elems, index.value)
         ELSE Ok(Select(ArrayIdentifier(array.id, array.inner, UFromValue(size.value, 32), NoSpan),
                        UFromValue(index.value, 32), ty, NoSpan)))
    ELSE Ok(Select([array EXCEPT !.size = UFromValue(size.value, 32)],
                   Annotate(index, 32), ty, NoSpan))

(***************************************************************************)
(* Propagator: the expression folders.  C is the constants map, which the  *)
(* expression folders only read.  Operands fold left to right and the      *)
(* first Err ends the fold (the ? operator).                               *)
(***************************************************************************)
\* a variant of fold_identifier_expression that never looks the identifier up
FoldIdentifierExpressionUnchanged(id, C) == Ok(id)

\* fold_identifier_expression
FoldIdentifierExpression(id, C) ==
    IF id.id \in DOMAIN C THEN Ok(C[id.id]) ELSE Ok(id)

\* the flat_map / filter_map of fold_array_expression_inner over folded elements
RECURSIVE SimplifySpreads(_)
SimplifySpreads(elems) ==
    IF elems = <<>> THEN <<>>
    ELSE LET h == Head(elems) IN
         (IF h.k = "Spread" /\ h.array.k = "ArrayValue" THEN h.array.elems
          ELSE IF h.k = "Spread" /\ h.array.size = UValue(0, NoSpan, 32) THEN <<>>
          ELSE <<h>>) \o SimplifySpreads(Tail(elems))

RECURSIVE Fold(_, _)
RECURSIVE FoldElems(_, _)

\* fold_expression_or_spread over the elements of an array value, in order
FoldElems(elems, C) ==
    IF elems = <<>> THEN Ok(<<>>)
    ELSE LET h == Head(elems)
             fh == IF h.k = "Spread" THEN Fold(h.array, C) ELSE Fold(h, C)
         IN IF ~fh.ok THEN fh
            ELSE LET ft == FoldElems(Tail(elems), C)
                 IN IF ~ft.ok THEN ft
                    ELSE Ok(<<IF h.k = "Spread" THEN Spread(fh.e) ELSE fh.e>> \o ft.e)

\* fold_expression: fold_field_expression, fold_uint_expression,
\* fold_boolean_expression and fold_array_expression by the kind of node
Fold(e, C) ==
    CASE e.k \in {"Number", "UValue", "BValue"} -> Ok(e)
      [] e.k = "Identifier" -> FoldIdentifierExpression(e, C)
      [] e.k = "ArrayIdentifier" ->
            IF e.id \in DOMAIN C
            THEN Ok([C[e.id] EXCEPT !.inner = e.inner, !.size = e.size])
            ELSE Ok(e)
      [] e.k = "ArrayValue" ->
            LET fe == FoldElems(e.elems, C)
            IN IF ~fe.ok THEN fe ELSE Ok([e EXCEPT !.elems = SimplifySpreads(fe.e)])
      [] e.k \in UintBinaryKinds ->
            LET l == Fold(e.left, C) IN
            IF ~l.ok THEN l
            ELSE LET r == Fold(e.right, C) IN
                 IF ~r.ok THEN r ELSE UintBinaryArm(e.k, l.e, r.e, e.bitwidth)
      [] e.k \in UintUnaryKinds ->
            LET i == Fold(e.inner, C) IN
            IF ~i.ok THEN i ELSE UintUnaryArm(e.k, i.e, e.bitwidth)
      [] e.k \in FieldBinaryKinds ->
            LET l == Fold(e.left, C) IN
            IF ~l.ok THEN l
            ELSE LET r == Fold(e.right, C) IN
                 IF ~r.ok THEN r ELSE FieldBinaryArm(e.k, l.e, r.e, e.span)
      [] e.k = "Neg" ->
            LET i == Fold(e.inner, C) IN IF ~i.ok THEN i ELSE FieldNegArm(i.e)
      [] e.k = "Pos" ->
            LET i == Fold(e.inner, C) IN IF ~i.ok THEN i ELSE FieldPosArm(i.e)
      [] e.k = "Pow" ->
            LET l == Fold(e.left, C) IN
            IF ~l.ok THEN l
            ELSE LET r == Fold(e.right, C) IN
                 IF ~r.ok THEN r ELSE PowArm(l.e, r.e)
      [] e.k \in FieldCmpKinds ->
            LET l == Fold(e.left, C) IN
            IF ~l.ok THEN l
            ELSE LET r == Fold(e.right, C) IN
                 IF ~r.ok THEN r ELSE FieldCmpArm(e.k, l.e, r.e)
      [] e.k \in UintCmpKinds ->
            LET l == Fold(e.left, C) IN
            IF ~l.ok THEN l
            ELSE LET r == Fold(e.right, C) IN
                 IF ~r.ok THEN r ELSE UintCmpArm(e.k, l.e, r.e)
      [] e.k \in BoolBinaryKinds ->
            LET l == Fold(e.left, C) IN
            IF ~l.ok THEN l
            ELSE LET r == Fold(e.right, C) IN
                 IF ~r.ok THEN r
                 ELSE IF e.k = "Or" THEN OrArm(l.e, r.e) ELSE AndArm(l.e, r.e)
      [] e.k = "Not" ->
            LET i == Fold(e.inner, C) IN IF ~i.ok THEN i ELSE NotArm(i.e)
      [] e.k \in EqKinds ->
            LET l == Fold(e.left, C) IN
            IF ~l.ok THEN l
            ELSE LET r == Fold(e.right, C) IN
                 IF ~r.ok THEN r ELSE EqArm(e.k, l.e, r.e)
      [] e.k = "Conditional" ->
            LET c == Fold(e.condition, C) IN
            IF ~c.ok THEN c
            ELSE LET a == Fold(e.consequence, C) IN
                 IF ~a.ok THEN a
                 ELSE LET b == Fold(e.alternative, C) IN
                      IF ~b.ok THEN b
                      ELSE ConditionalArm(c.e, a.e, b.e, e.kind, e.ty)
      [] e.k = "Select" ->
            LET a == Fold(e.array, C) IN
            IF ~a.ok THEN a
            ELSE LET i == Fold(e.index, C) IN
                 IF ~i.ok THEN i ELSE SelectArm(a.e, i.e, e.ty, C)

(***************************************************************************)
(* Statements and assignees                                                *)
(***************************************************************************)
\* Variable { id, ty }
Variable(id, ty) == [id |-> id, ty |-> ty]
\* TypedAssignee::Identifier(var)
AssigneeIdentifier(var) == [k |-> "AssigneeIdentifier", var |-> var]
\* TypedAssignee::Select(assignee, index)
AssigneeSelect(a, index) == [k |-> "AssigneeSelect", assignee |-> a, index |-> index]
\* TypedAssignee::Member(assignee, member id)
AssigneeMember(a, m) == [k |-> "AssigneeMember", assignee |-> a, member |-> m]
\* TypedAssignee::Element(assignee, index)
AssigneeElement(a, index) == [k |-> "AssigneeElement", assignee |-> a, element |-> index]

\* `struct_ty.members.iter().position(|member| *m == member.id).unwrap()`
MemberPosition(struct_ty, m) ==
    CHOOSE i \in 1 .. Len(struct_ty.members) : struct_ty.members[i].id = m

\* TypedStatement::Definition(assignee, DefinitionRhs::Expression(rhs))
Definition(a, rhs) == [k |-> "Definition", assignee |-> a, rhs |-> rhs]
\* TypedStatement::Definition(assignee, DefinitionRhs::EmbedCall(..))
EmbedCallDefinition(a, embed, generics, arguments) ==
    [k |-> "EmbedCallDefinition", assignee |-> a, embed |-> embed,
     generics |-> generics, arguments |-> arguments]
\* TypedStatement::Assertion(e, ty)
Assertion(e, ty) == [k |-> "Assertion", e |-> e, ty |-> ty]
\* TypedStatement::For(var, from, to, statements)
For(var, from, to, statements) ==
    [k |-> "For", var |-> var, from |-> from, to |-> to, statements |-> statements]
\* TypedStatement::Return(e)
Return(e) == [k |-> "Return", e |-> e]
PushCallLog == [k |-> "PushCallLog"]
PopCallLog == [k |-> "PopCallLog"]

\* TypedAssignee::get_type
RECURSIVE AssigneeType(_)
AssigneeType(a) ==
    CASE a.k = "AssigneeIdentifier" -> a.var.ty
      [] a.k = "AssigneeSelect" -> AssigneeType(a.assignee).inner
      [] a.k = "AssigneeMember" ->
            LET ty == AssigneeType(a.assignee) IN ty.members[MemberPosition(ty, a.member)].ty
      [] a.k = "AssigneeElement" -> AssigneeType(a.assignee).elems[a.element + 1]

\* fold_assignee: the index of a Select is folded, the variable is kept
RECURSIVE FoldAssignee(_, _)
FoldAssignee(a, C) ==
    IF a.k = "AssigneeIdentifier" THEN Ok(a)
    ELSE LET fa == FoldAssignee(a.assignee, C) IN
         IF ~fa.ok THEN fa
         ELSE IF a.k # "AssigneeSelect" THEN Ok([a EXCEPT !.assignee = fa.e])
         ELSE LET fi == Fold(a.index, C) IN
              IF ~fi.ok THEN fi ELSE Ok(AssigneeSelect(fa.e, fi.e))

\* the sub-slot of constant c at the path of element indices
RECURSIVE SlotAt(_, _)
SlotAt(c, path) ==
    IF path = <<>> THEN c ELSE SlotAt(c.elems[Head(path) + 1], Tail(path))

\* a variant of SetSlot overwriting the first element of c whatever the path
SetSlotFirst(c, path, e) ==
    IF path = <<>> THEN e ELSE [c EXCEPT !.elems[1] = e]

\* constant c with the sub-slot at path overwritten by e
RECURSIVE SetSlot(_, _, _)
SetSlot(c, path, e) ==
    IF path = <<>> THEN e
    ELSE [c EXCEPT !.elems[Head(path) + 1] = SetSlot(c.elems[Head(path) + 1], Tail(path), e)]

\* try_get_constant_mut: Ok((variable, slot)) as [found, var, path], the slot
\* being SlotAt(C[var.id], path); Err(variable) as [found |-> FALSE, var]
RECURSIVE TryGetConstantMut(_, _)
TryGetConstantMut(a, C) ==
    IF a.k = "AssigneeIdentifier" THEN
        [found |-> a.var.id \in DOMAIN C, var |-> a.var, path |-> <<>>]
    ELSE LET r == TryGetConstantMut(a.assignee, C) IN
         IF ~r.found THEN r
         ELSE IF a.k = "AssigneeMember"
         THEN [r EXCEPT !.path =
                  Append(r.path, MemberPosition(AssigneeType(a.assignee), a.member) - 1)]
         ELSE IF a.k = "AssigneeElement"
         THEN [r EXCEPT !.path = Append(r.path, a.element)]
         ELSE IF IsUValue(a.index)
                 /\ a.index.value + 1 <= Len(SlotAt(C[r.var.id], r.path).elems)
         THEN [r EXCEPT !.path = Append(r.path, a.index.value)]
         ELSE [found |-> FALSE, var |-> r.var, path |-> <<>>]

\* HashMap::remove
Remove(C, id) == [x \in DOMAIN C \ {id} |-> C[x]]
\* HashMap::insert
Insert(C, id, e) == [x \in DOMAIN C \cup {id} |-> IF x = id THEN e ELSE C[x]]

\* the result of fold_statement: the statements returned and the constants after
Folded(statements, C) == [ok |-> TRUE, out |-> statements, constants |-> C]

\* a variant of InvalidateCache reading the cached constant with get instead
\* of remove, so that the entry outlives the definition put back
InvalidateCacheKeepingEntry(v, def, C) ==
    IF v.id \in DOMAIN C
    THEN Folded(<<Definition(AssigneeIdentifier(v), C[v.id]), def>>, C)
    ELSE Folded(<<def>>, C)

\* a variant of InvalidateCache putting the cached constant back after def
InvalidateCacheDefinitionFirst(v, def, C) ==
    IF v.id \in DOMAIN C
    THEN Folded(<<def, Definition(AssigneeIdentifier(v), C[v.id])>>, Remove(C, v.id))
    ELSE Folded(<<def>>, C)

\* constants.remove(v.id) followed by the definitions returned: the cached
\* constant of v, if any, goes back into the program before def
InvalidateCache(v, def, C) ==
    IF v.id \in DOMAIN C
    THEN Folded(<<Definition(AssigneeIdentifier(v), C[v.id]), def>>, Remove(C, v.id))
    ELSE Folded(<<def>>, C)

\* the statement arm storing a constant expr for the folded assignee;
\* checked is whether the insert is under assert!(.. .is_none())
StoreConstant(assignee, expr, stored, checked, C) ==
    IF assignee.k = "AssigneeIdentifier" THEN
        (IF checked /\ assignee.var.id \in DOMAIN C THEN Panic
         ELSE Folded(<<>>, Insert(C, assignee.var.id, stored)))
    ELSE LET r == TryGetConstantMut(assignee, C) IN
         IF r.found
         THEN Folded(<<>>, [C EXCEPT ![r.var.id] = SetSlot(C[r.var.id], r.path, stored)])
         ELSE InvalidateCache(r.var, Definition(assignee, expr), C)

\* a variant of the Definition arm that takes the constant branch whatever
\* the folded rhs
DefinitionArmStoring(assignee, expr, C) ==
    IF AssigneeType(assignee) # GetType(expr) THEN Err("Type", <<>>)
    ELSE StoreConstant(assignee, expr, IntoCanonicalConstant(expr), TRUE, C)

\* fold_statement, Definition(assignee, Expression(expr)) arm, on the folded
\* assignee and expression
DefinitionArm(assignee, expr, C) ==
    IF AssigneeType(assignee) # GetType(expr) THEN Err("Type", <<>>)
    ELSE IF IsConstant(expr)
    THEN StoreConstant(assignee, expr, IntoCanonicalConstant(expr), TRUE, C)
    ELSE InvalidateCache(TryGetConstantMut(assignee, C).var, Definition(assignee, expr), C)

\* a variant of the Assertion arm failing on the literal false and dropping
\* the literal true
AssertionArmFailingOnFalse(expr, ty, C) ==
    IF IsBValue(expr) /\ ~expr.bvalue THEN Err("AssertionFailed", <<>>)
    ELSE IF IsBValue(expr) /\ expr.bvalue THEN Folded(<<>>, C)
    ELSE Folded(<<Assertion(expr, ty)>>, C)

\* fold_statement, Assertion(e, ty) arm, on the folded expression
AssertionArm(expr, ty, C) ==
    IF IsBValue(expr) /\ expr.bvalue THEN Err("AssertionFailed", <<>>)
    ELSE IF IsBValue(expr) /\ ~expr.bvalue THEN Folded(<<>>, C)
    ELSE Folded(<<Assertion(expr, ty)>>, C)

(***************************************************************************)
(* Propagator: embed calls                                                 *)
(***************************************************************************)
\* the bitwidth of the U{8,16,32,64}{From,To}Bits embeds
EmbedBitwidth(embed) ==
    CASE embed \in {"U8FromBits", "U8ToBits"} -> 8
      [] embed \in {"U16FromBits", "U16ToBits"} -> 16
      [] embed \in {"U32FromBits", "U32ToBits"} -> 32
      [] embed \in {"U64FromBits", "U64ToBits"} -> 64

\* a variant of the fold of process_u_from_bits weighing bit i by 2^i
RECURSIVE FromBitsSumLsbFirst(_, _, _)
FromBitsSumLsbFirst(bits, i, bitwidth) ==
    IF i = Len(bits) THEN 0
    ELSE (IF bits[i + 1].bvalue THEN Pow2(i) ELSE 0)
         + FromBitsSumLsbFirst(bits, i + 1, bitwidth)

\* the fold of process_u_from_bits: bit i (from 0) weighs 2^(bitwidth - i - 1)
RECURSIVE FromBitsSum(_, _, _)
FromBitsSum(bits, i, bitwidth) ==
    IF i = Len(bits) THEN 0
    ELSE (IF bits[i + 1].bvalue THEN Pow2(bitwidth - i - 1) ELSE 0)
         + FromBitsSum(bits, i + 1, bitwidth)

\* process_u_from_bits
ProcessUFromBits(arguments, bitwidth) ==
    LET argument == IntoCanonicalConstant(arguments[Len(arguments)]) IN
    IF Len(arguments) # 1
       \/ \E i \in 1 .. Len(argument.elems) : argument.elems[i].bvalue /\ i > bitwidth
    THEN Panic
    ELSE Ok(UValue(FromBitsSum(argument.elems, 0, bitwidth), NoSpan, bitwidth))

\* the loop `for i in (0..n).rev()` of process_u_to_bits: the bits pushed and
\* what is left of num
RECURSIVE ToBitsLoop(_, _)
ToBitsLoop(num, n) ==
    IF n = 0 THEN [res |-> <<>>, num |-> num]
    ELSE IF Pow2(n - 1) <= num
         THEN LET r == ToBitsLoop(num - Pow2(n - 1), n - 1)
              IN [res |-> <<TRUE>> \o r.res, num |-> r.num]
         ELSE LET r == ToBitsLoop(num, n - 1)
              IN [res |-> <<FALSE>> \o r.res, num |-> r.num]

\* ArrayExpression::from_value(res of booleans).annotate(Type::Boolean, n)
BooleanArray(res, n) ==
    ArrayValue([i \in 1 .. Len(res) |-> BValue(res[i], NoSpan)],
               BooleanType, UValue(n, NoSpan, 32), NoSpan)

\* process_u_to_bits
ProcessUToBits(arguments, bitwidth) ==
    LET r == ToBitsLoop(arguments[1].value, bitwidth) IN
    IF Len(arguments) # 1 \/ r.num # 0 THEN Panic
    ELSE Ok(BooleanArray(r.res, bitwidth))

\* the loop of the FlatEmbed::Unpack arm, in the field T
RECURSIVE UnpackLoop(_, _)
UnpackLoop(acc, n) ==
    IF n = 0 THEN [res |-> <<>>, acc |-> acc]
    ELSE IF FieldPow(2 % P, n - 1) <= acc
         THEN LET r == UnpackLoop((acc - FieldPow(2 % P, n - 1)) % P, n - 1)
              IN [res |-> <<TRUE>> \o r.res, acc |-> r.acc]
         ELSE LET r == UnpackLoop(acc, n - 1)
              IN [res |-> <<FALSE>> \o r.res, acc |-> r.acc]

\* a variant of the Unpack arm pushing the bits least significant first
UnpackArmLsbFirst(generics, arguments) ==
    IF Len(arguments) # 1 \/ Len(generics) # 1 THEN Panic
    ELSE LET bit_width == generics[1]
             r == UnpackLoop(arguments[1].value, bit_width)
         IN IF r.acc # 0 THEN Err("ValueTooLarge", <<>>)
            ELSE Ok(BooleanArray([i \in 1 .. bit_width |-> r.res[bit_width + 1 - i]],
                                 bit_width))

\* FlatEmbed::Unpack arm on constant arguments
UnpackArm(generics, arguments) ==
    IF Len(arguments) # 1 \/ Len(generics) # 1 THEN Panic
    ELSE LET bit_width == generics[1]
             r == UnpackLoop(arguments[1].value, bit_width)
         IN IF r.acc # 0 THEN Err("ValueTooLarge", <<>>)
            ELSE Ok(BooleanArray(r.res, bit_width))

NoneExpr == [k |-> "None"]

\* `let r: Option<TypedExpression> = match embed_call.embed { .. }?`
EmbedResult(embed, generics, arguments) ==
    CASE embed = "BitArrayLe" -> Ok(NoneExpr)
      [] embed \in {"U8FromBits", "U16FromBits", "U32FromBits", "U64FromBits"} ->
            ProcessUFromBits(arguments, EmbedBitwidth(embed))
      [] embed \in {"U8ToBits", "U16ToBits", "U32ToBits", "U64ToBits"} ->
            ProcessUToBits(arguments, EmbedBitwidth(embed))
      [] embed = "Unpack" -> UnpackArm(generics, arguments)

\* fold_embed_call: the arguments fold in order
RECURSIVE FoldArguments(_, _)
FoldArguments(arguments, C) ==
    IF arguments = <<>> THEN Ok(<<>>)
    ELSE LET h == Fold(Head(arguments), C) IN
         IF ~h.ok THEN h
         ELSE LET t == FoldArguments(Tail(arguments), C) IN
              IF ~t.ok THEN t ELSE Ok(<<h.e>> \o t.e)

\* fold_statement, Definition(assignee, EmbedCall(..)) arm, on the folded
\* assignee and arguments
EmbedCallArm(assignee, embed, generics, arguments, C) ==
    LET def == EmbedCallDefinition(assignee, embed, generics, arguments)
        v == TryGetConstantMut(assignee, C).var
    IN IF \A i \in 1 .. Len(arguments) : IsConstant(arguments[i]) THEN
           LET r == EmbedResult(embed, generics, arguments) IN
           IF ~r.ok THEN r
           ELSE IF r.e = NoneExpr THEN InvalidateCache(v, def, C)
           ELSE StoreConstant(assignee, r.e, r.e, FALSE, C)
       ELSE InvalidateCache(v, def, C)

(***************************************************************************)
(* Propagator: fold_statement and propagate                                *)
(***************************************************************************)
FoldStatement(s, C) ==
    CASE s.k = "Definition" ->
            LET a == FoldAssignee(s.assignee, C) IN
            IF ~a.ok THEN a
            ELSE LET e == Fold(s.rhs, C) IN
                 IF ~e.ok THEN e ELSE DefinitionArm(a.e, e.e, C)
      [] s.k = "For" ->
            LET from == Fold(s.from, C) IN
            IF ~from.ok THEN from
            ELSE LET to == Fold(s.to, C) IN
                 IF ~to.ok THEN to
                 ELSE Folded(<<For(s.var, from.e, to.e, s.statements)>>, C)
      [] s.k = "EmbedCallDefinition" ->
            LET a == FoldAssignee(s.assignee, C) IN
            IF ~a.ok THEN a
            ELSE LET args == FoldArguments(s.arguments, C) IN
                 IF ~args.ok THEN args
                 ELSE EmbedCallArm(a.e, s.embed, s.generics, args.e, C)
      [] s.k = "Assertion" ->
            LET e == Fold(s.e, C) IN
            IF ~e.ok THEN e ELSE AssertionArm(e.e, s.ty, C)
      [] s.k \in {"PushCallLog", "PopCallLog"} -> Folded(<<s>>, C)
      [] s.k = "Return" ->
            LET e == Fold(s.e, C) IN
            IF ~e.ok THEN e ELSE Folded(<<Return(e.e)>>, C)

EmptyMap == [x \in {} |-> x]

\* fold_function over the statements of main: fold_statement on each in
\* order, the results concatenated, the first Err ending the pass
RECURSIVE FoldStatements(_, _, _)
FoldStatements(statements, C, acc) ==
    IF statements = <<>> THEN Folded(acc, C)
    ELSE LET r == FoldStatement(Head(statements), C) IN
         IF ~r.ok THEN r
         ELSE FoldStatements(Tail(statements), r.constants, acc \o r.out)

\* Propagator::propagate on a main body
Propagate(statements) == FoldStatements(statements, EmptyMap, <<>>)

(***************************************************************************)
(* The programs the propagator is run on: main bodies over the arguments   *)
(* x : field, n : u8, c : bool and the locals a, b : field, u : u8,        *)
(* arr : field[2], bits : bool[..].                                        *)
(***************************************************************************)
S1 == SomeSpan(1)
U8 == UintType(8)
FieldArray2 == ArrayType(FieldType, 2)

Num(v) == Number(v, NoSpan)
FId(id) == Identifier(id, FieldType, NoSpan)
UId(id) == Identifier(id, U8, NoSpan)
BId(id) == Identifier(id, BooleanType, NoSpan)
U8Lit(v) == UValue(v, NoSpan, 8)
U32Lit(v) == UValue(v, NoSpan, 32)
ArrId == ArrayIdentifier("arr", FieldType, U32Lit(2), NoSpan)
ArrLit(e1, e2) == ArrayValue(<<e1, e2>>, FieldType, U32Lit(2), NoSpan)

Arguments == {"x", "n", "c"}

FieldRhs ==
    { Binary("Add", Num(2), Num(3), NoSpan),
      Binary("Mult", FId("a"), FId("x"), NoSpan),
      Binary("Mult", Binary("Add", Num(2), Num(3), S1), FId("x"), NoSpan),
      Binary("Pow", FId("x"), UId("n"), NoSpan),
      Select(ArrId, U32Lit(0), FieldType, NoSpan),
      Conditional(BId("c"), FId("a"), Num(5), "IfElse", FieldType, NoSpan) }

UintRhs ==
    { UBinary("UFloorSub", U8Lit(1), UId("n"), NoSpan, 8),
      UBinary("UFloorSub", UId("n"), U8Lit(1), NoSpan, 8),
      UBinary("UAdd", U8Lit(200), U8Lit(100), NoSpan, 8),
      UBinary("UMult", U8Lit(3), UBinary("UAdd", UId("n"), U8Lit(0), S1, 8), NoSpan, 8),
      UValue(1, NoSpan, 16) }

ArrayRhs == { ArrLit(Num(1), Num(2)), ArrLit(FId("x"), Num(1)) }

FieldVar(id) == Variable(id, FieldType)

\* Definition statements of the programs
DefinitionPool ==
    { Definition(AssigneeIdentifier(FieldVar(id)), e) : id \in {"a", "b"}, e \in FieldRhs }
    \cup { Definition(AssigneeIdentifier(Variable("u", U8)), e) : e \in UintRhs }
    \cup { Definition(AssigneeIdentifier(Variable("arr", FieldArray2)), e) : e \in ArrayRhs }
    \cup { Definition(AssigneeSelect(AssigneeIdentifier(Variable("arr", FieldArray2)), i), e) :
             i \in {U32Lit(0), U32Lit(5), UId("n")}, e \in {Num(3), FId("x")} }

BitsVar(b) == Variable("bits", ArrayType(BooleanType, b))

EmbedPool ==
    { EmbedCallDefinition(AssigneeIdentifier(BitsVar(b)), "Unpack", <<b>>, <<e>>) :
        b \in {0, 4, 5}, e \in {Num(17), Num(9), FId("a"), FId("x")} }
    \cup { EmbedCallDefinition(AssigneeIdentifier(BitsVar(8)), "U8ToBits", <<>>, <<e>>) :
             e \in {U8Lit(5), UId("n")} }
    \cup { EmbedCallDefinition(AssigneeIdentifier(Variable("c1", BooleanType)), "BitArrayLe",
                               <<>>, <<BooleanArray(<<TRUE, FALSE>>, 2),
                                       BooleanArray(<<FALSE, TRUE>>, 2)>>) }

AssertionPool ==
    { Assertion(e, "Source") :
        e \in { Binary("FieldEq", FId("a"), Num(5), NoSpan),
                Binary("FieldEq", FId("a"), Number(5, S1), NoSpan),
                Binary("FieldEq", FId("a"), Num(6), NoSpan),
                Binary("FieldEq", FId("x"), Num(5), NoSpan),
                Binary("FieldLt", FId("x"), FId("a"), NoSpan),
                Unary("Not", BId("c"), NoSpan) } }
    \cup { Assertion(Binary("FieldEq", FId("x"), Num(5), NoSpan), "SelectRangeCheck") }

ForPool ==
    { For(Variable("i", UintType(32)), U32Lit(0), UBinary("UAdd", U32Lit(1), U32Lit(1), NoSpan, 32),
          <<Definition(AssigneeIdentifier(FieldVar("b")), FId("a"))>>) }

OtherPool == { PushCallLog, PopCallLog, Return(FId("a")), Return(FId("x")) }

\* the identifiers an expression reads
RECURSIVE Reads(_)
Reads(e) ==
    IF e.k \in {"Number", "UValue", "BValue"} THEN {}
    ELSE IF e.k \in {"Identifier", "ArrayIdentifier"} THEN {e.id}
    ELSE IF e.k = "ArrayValue" THEN UNION { Reads(e.elems[i]) : i \in 1 .. Len(e.elems) }
    ELSE IF e.k = "Spread" THEN Reads(e.array)
    ELSE IF e.k = "Conditional"
    THEN Reads(e.condition) \cup Reads(e.consequence) \cup Reads(e.alternative)
    ELSE IF e.k = "Select" THEN Reads(e.array) \cup Reads(e.index)
    ELSE IF "inner" \in DOMAIN e THEN Reads(e.inner)
    ELSE Reads(e.left) \cup Reads(e.right)

\* the variable at the root of an assignee
RECURSIVE RootOf(_)
RootOf(a) == IF a.k = "AssigneeIdentifier" THEN a.var ELSE RootOf(a.assignee)

\* the identifiers an assignee reads in its indices
RECURSIVE AssigneeReads(_)
AssigneeReads(a) ==
    IF a.k = "AssigneeIdentifier" THEN {}
    ELSE AssigneeReads(a.assignee) \cup (IF a.k = "AssigneeSelect" THEN Reads(a.index) ELSE {})

\* the identifiers a statement reads, the body of a For included
RECURSIVE StatementReads(_)
StatementReads(s) ==
    CASE s.k = "Definition" -> AssigneeReads(s.assignee) \cup Reads(s.rhs)
      [] s.k = "EmbedCallDefinition" ->
            AssigneeReads(s.assignee)
            \cup UNION { Reads(s.arguments[i]) : i \in 1 .. Len(s.arguments) }
      [] s.k = "Assertion" -> Reads(s.e)
      [] s.k = "Return" -> Reads(s.e)
      [] s.k = "For" ->
            Reads(s.from) \cup Reads(s.to)
            \cup ((UNION { StatementReads(s.statements[i]) : i \in 1 .. Len(s.statements) })
                  \ {s.var.id})
      [] OTHER -> {}

\* the identifiers the statements assign, at the root of their assignees,
\* the body of a For included
RECURSIVE Defined(_)
Defined(statements) ==
    UNION { CASE statements[i].k \in {"Definition", "EmbedCallDefinition"} ->
                    {RootOf(statements[i].assignee).id}
              [] statements[i].k = "For" -> Defined(statements[i].statements)
              [] OTHER -> {} : i \in 1 .. Len(statements) }

\* the single-assignment form the upstream passes hand to the propagator:
\* s reads arguments and defined identifiers only, and defines a fresh
\* identifier or assigns into a defined one
WellFormedNext(s, statements) ==
    /\ StatementReads(s) \subseteq Arguments \cup Defined(statements)
    /\ s.k \in {"Definition", "EmbedCallDefinition"} =>
          IF s.assignee.k = "AssigneeIdentifier"
          THEN s.assignee.var.id \notin Defined(statements)
          ELSE RootOf(s.assignee).id \in Defined(statements)
    /\ s.k = "For" =>
          \A i \in 1 .. Len(s.statements) :
              RootOf(s.statements[i].assignee).id \notin Defined(statements)

NoStmt == [k |-> "None"]
Pending == [ok |-> FALSE, err |-> [kind |-> "pending", payload |-> <<>>]]

(***************************************************************************)
(* The propagator as a state machine: one fold_statement call per step     *)
(***************************************************************************)
Init ==
    /\ irProg = NoStmt
    /\ lowered = Pending
    /\ flatIn = NoStmt
    /\ flatOut = Pending
    /\ constants = EmptyMap
    /\ prog = <<>>
    /\ out = <<>>
    /\ err = NoErr
    /\ stmt = NoStmt
    /\ exprIn = NoneExpr
    /\ exprOut = Pending
    /\ calls = EmptyMap
    /\ idxMap = EmptyMap
    /\ idxCalls = <<>>
    /\ substitution = EmptyMap
    /\ dprog = <<>>
    /\ dout = <<>>

\* fold_statement(s) called by fold_function as the next statement of main
Step(s) ==
    /\ err = NoErr
    /\ Len(prog) < MaxStmts
    /\ WellFormedNext(s, prog)
    /\ LET r == FoldStatement(s, constants) IN
         /\ prog' = Append(prog, s)
         /\ stmt' = s
         /\ IF r.ok
            THEN /\ constants' = r.constants
                 /\ out' = out \o r.out
                 /\ err' = NoErr
            ELSE /\ err' = r.err
                 /\ UNCHANGED <<constants, out>>
    /\ UNCHANGED <<exprIn, exprOut, calls, substitution, dprog, dout>>
    /\ UNCHANGED <<irProg, lowered, flatIn, flatOut>>
    /\ UNCHANGED <<idxMap, idxCalls>>

FoldDefinition == \E s \in DefinitionPool : Step(s)
FoldEmbedCallDefinition == \E s \in EmbedPool : Step(s)
FoldAssertion == \E s \in AssertionPool : Step(s)
FoldFor == \E s \in ForPool : Step(s)
FoldOther == \E s \in OtherPool : Step(s)

Next ==
    \/ FoldDefinition
    \/ FoldEmbedCallDefinition
    \/ FoldAssertion
    \/ FoldFor
    \/ FoldOther

Spec == Init /\ [][Next]_vars

(***************************************************************************)
(* The expression folders on their own: one fold_expression call on an     *)
(* expression drawn from the pools below, under constants drawn from       *)
(* ExprConstants                                                           *)
(***************************************************************************)
MaxLen == 3
MaxExp == 2

SpanChoice == {NoSpan, S1}

\* literal arrays [11, 12, ..] of 1 .. MaxLen field elements, and the array
\* identifier arr3 of size 3
SelectArrays ==
    { ArrayValue([i \in 1 .. n |-> Num(10 + i)], FieldType, UValue(n, sp, 32), NoSpan) :
        n \in 1 .. MaxLen, sp \in SpanChoice }
    \cup { ArrayIdentifier("arr3", FieldType, U32Lit(3), NoSpan) }

SelectIndices ==
    { UValue(i, sp, 32) : i \in 0 .. MaxLen + 1, sp \in SpanChoice }
    \cup { UBinary("UAdd", U32Lit(1), U32Lit(1), NoSpan, 32),
           Identifier("j", UintType(32), NoSpan) }

SelectPool == { Select(a, i, FieldType, NoSpan) : a \in SelectArrays, i \in SelectIndices }

PowPool ==
    { Binary("Pow", b, e, NoSpan) :
        b \in { Num(0), Num(2), Num(3), Number(3, S1), FId("x"), FId("a"),
                Binary("Add", Num(1), Num(2), NoSpan),
                Binary("Add", FId("x"), Num(0), NoSpan) },
        e \in { UValue(n, sp, 32) : n \in 0 .. MaxExp, sp \in SpanChoice }
              \cup { Identifier("j", UintType(32), NoSpan),
                     UBinary("URem", U32Lit(MaxExp), U32Lit(MaxExp), NoSpan, 32),
                     UBinary("UAdd", U32Lit(1), U32Lit(1), NoSpan, 32),
                     UBinary("UAdd", Identifier("j", UintType(32), NoSpan), U32Lit(1),
                             NoSpan, 32) } }

ConditionalPool ==
    { Conditional(c, a, b, kind, FieldType, NoSpan) :
        c \in { BValue(TRUE, NoSpan), BValue(FALSE, S1), BId("c"),
                Binary("FieldEq", FId("a"), Num(5), NoSpan),
                Binary("FieldEq", FId("x"), Num(5), NoSpan),
                Unary("Not", BValue(TRUE, NoSpan), NoSpan) },
        a \in { Num(1), FId("x"), FId("a"), Binary("Add", Num(2), Num(3), NoSpan) },
        b \in { Num(1), Num(5), Number(5, S1), FId("x"), FId("y") },
        kind \in {"IfElse", "Ternary"} }

\* equalities over field elements and over arrays of one field element
EqOperands ==
    { Num(5), Number(5, S1), Num(6), FId("a"), FId("x"), Binary("Add", Num(2), Num(3), NoSpan) }
Array1(elems) == ArrayValue(elems, FieldType, U32Lit(1), NoSpan)
ArrayEqOperands ==
    { Array1(<<Spread(Array1(<<Num(2)>>))>>), Array1(<<Num(2)>>), Array1(<<Num(4)>>),
      Array1(<<Number(2, S1)>>), Array1(<<FId("x")>>), Array1(<<FId("a")>>) }
EqPool ==
    { Binary("FieldEq", l, r, NoSpan) : l \in EqOperands, r \in EqOperands }
    \cup { Binary("ArrayEq", l, r, NoSpan) : l \in ArrayEqOperands, r \in ArrayEqOperands }

\* comparisons of field elements
CmpOperands ==
    { Num(2), Num(4), Number(4, S1), FId("a"), FId("x"), Binary("Add", Num(1), Num(1), NoSpan) }
CmpPool ==
    { Binary(op, l, r, sp) :
        op \in FieldCmpKinds, l \in CmpOperands, r \in CmpOperands, sp \in SpanChoice }

\* uint operations over literals, identifiers and a foldable sum
UintLiterals(w) ==
    IF w = 8 THEN {0, 1, 2, 3, 128, 255} ELSE {0, 2, 300, 32768}
UintOperands(w) ==
    { UValue(v, NoSpan, w) : v \in UintLiterals(w) }
    \cup (IF w = 8
          THEN { UValue(1, S1, w), Identifier("x", UintType(w), NoSpan),
                 Identifier("y", UintType(w), NoSpan),
                 UBinary("UAdd", UValue(1, NoSpan, w), UValue(1, NoSpan, w), NoSpan, w) }
          ELSE {})
ShiftAmounts ==
    { U32Lit(by) : by \in {0, 1, 7, 8, 9, 127, 128, 130} }
    \cup { Identifier("j", UintType(32), NoSpan) }
UintPool ==
    { UBinary(op, l, r, NoSpan, w) :
        op \in UintBinaryKinds, l \in UintOperands(8), r \in UintOperands(8), w \in {8} }
    \cup { UBinary(op, l, r, NoSpan, w) :
        op \in UintBinaryKinds, l \in UintOperands(16), r \in UintOperands(16), w \in {16} }
    \cup { UBinary(op, l, by, NoSpan, w) :
        op \in UintShiftKinds, l \in UintOperands(8), by \in ShiftAmounts, w \in {8} }
    \cup { UBinary(op, l, by, NoSpan, w) :
        op \in UintShiftKinds, l \in UintOperands(16), by \in ShiftAmounts, w \in {16} }

\* the constants maps the expressions are folded under
ExprConstants ==
    { EmptyMap,
      [id \in {"a", "arr3"} |->
          IF id = "a" THEN Num(5)
          ELSE ArrayValue(<<Num(1), Num(2), Num(3)>>, FieldType, U32Lit(3), NoSpan)] }

InitExpr ==
    /\ irProg = NoStmt
    /\ lowered = Pending
    /\ flatIn = NoStmt
    /\ flatOut = Pending
    /\ exprIn \in SelectPool \cup PowPool \cup ConditionalPool \cup EqPool \cup CmpPool
                \cup UintPool
    /\ constants \in ExprConstants
    /\ exprOut = Pending
    /\ prog = <<>>
    /\ out = <<>>
    /\ err = NoErr
    /\ stmt = NoStmt
    /\ calls = EmptyMap
    /\ idxMap = EmptyMap
    /\ idxCalls = <<>>
    /\ substitution = EmptyMap
    /\ dprog = <<>>
    /\ dout = <<>>

\* fold_expression(exprIn)
FoldExpression ==
    /\ exprOut = Pending
    /\ exprOut' = Fold(exprIn, constants)
    /\ UNCHANGED <<constants, prog, out, err, stmt, exprIn, calls, substitution, dprog, dout>>
    /\ UNCHANGED <<irProg, lowered, flatIn, flatOut>>
    /\ UNCHANGED <<idxMap, idxCalls>>

FoldSelectExpression == exprIn.k = "Select" /\ FoldExpression
FoldFieldExpression == exprIn.k = "Pow" /\ FoldExpression
FoldConditionalExpression == exprIn.k = "Conditional" /\ FoldExpression

FoldEqExpression == exprIn.k \in EqKinds /\ FoldExpression
FoldBooleanExpression == exprIn.k \in FieldCmpKinds /\ FoldExpression

\* fold_uint_expression(exprIn): the operands are folded, then the arm of the
\* operator is applied; overflow_checks is the build's choice
FoldUintExpression ==
    /\ exprIn.k \in UintBinaryKinds \cup UintShiftKinds
    /\ exprOut = Pending
    /\ \E overflow_checks \in BOOLEAN :
         exprOut' =
            IF exprIn.k \in UintBinaryKinds THEN Fold(exprIn, constants)
            ELSE LET l == Fold(exprIn.left, constants)
                     r == Fold(exprIn.right, constants)
                 IN IF ~l.ok THEN l
                    ELSE IF ~r.ok THEN r
                    ELSE UintShiftArm(exprIn.k, l.e, r.e, exprIn.bitwidth, overflow_checks)
    /\ UNCHANGED <<constants, prog, out, err, stmt, exprIn, calls, substitution, dprog, dout>>
    /\ UNCHANGED <<irProg, lowered, flatIn, flatOut>>
    /\ UNCHANGED <<idxMap, idxCalls>>

NextExpr ==
    \/ FoldUintExpression
    \/ FoldSelectExpression
    \/ FoldFieldExpression
    \/ FoldConditionalExpression
    \/ FoldEqExpression
    \/ FoldBooleanExpression

SpecExpr == InitExpr /\ [][NextExpr]_vars

(***************************************************************************)
(* Directive optimiser.  An ir variable is a number; a linear combination  *)
(* is a sequence of <<variable, coefficient>> terms; a quadratic           *)
(* combination is a pair of linear combinations.                           *)
(***************************************************************************)
LinComb(v) == <<<<v, 1>>>>
QuadComb(l, r) == [left |-> l, right |-> r]
Constraint(quad, lin) == [k |-> "Constraint", quad |-> quad, lin |-> lin]
Directive(inputs, outputs, solver) ==
    [k |-> "Directive", inputs |-> inputs, outputs |-> outputs, solver |-> solver]

\* a variant of fold_variable that ignores the substitution
FoldVariableUnchanged(v, sub) == v

\* DirectiveOptimizer::fold_variable
FoldVariable(v, sub) == IF v \in DOMAIN sub THEN sub[v] ELSE v

\* fold_linear_combination: every variable through fold_variable
FoldLinComb(l, sub) == [i \in 1 .. Len(l) |-> <<FoldVariable(l[i][1], sub), l[i][2]>>]

\* fold_quadratic_combination
FoldQuadComb(q, sub) == QuadComb(FoldLinComb(q.left, sub), FoldLinComb(q.right, sub))

\* fold_directive: the inputs and the outputs through the folder
FoldDirective(d, sub) ==
    Directive([i \in 1 .. Len(d.inputs) |-> FoldQuadComb(d.inputs[i], sub)],
              [i \in 1 .. Len(d.outputs) |-> FoldVariable(d.outputs[i], sub)],
              d.solver)

\* a variant of extend mapping each value to its key
RECURSIVE ExtendSwapped(_, _, _)
ExtendSwapped(sub, keys, values) ==
    IF keys = <<>> \/ values = <<>> THEN sub
    ELSE ExtendSwapped(Insert(sub, Head(values), Head(keys)), Tail(keys), Tail(values))

\* HashMap::extend with the pairs zip(keys, values): later pairs win
RECURSIVE Extend(_, _, _)
Extend(sub, keys, values) ==
    IF keys = <<>> \/ values = <<>> THEN sub
    ELSE Extend(Insert(sub, Head(keys), Head(values)), Tail(keys), Tail(values))

\* the result of the optimiser's fold_statement
DirectiveFolded(statements, c, sub) ==
    [out |-> statements, calls |-> c, substitution |-> sub]

\* a variant of fold_statement emitting the directive in the Occupied branch too
DirectiveFoldStatementAlwaysEmitting(s, c, sub) ==
    IF s.k = "Directive" THEN
        LET d == FoldDirective(s, sub)
            key == <<d.solver, d.inputs>>
        IN IF key \notin DOMAIN c
           THEN DirectiveFolded(<<d>>, Insert(c, key, d.outputs), sub)
           ELSE DirectiveFolded(<<d>>, c, Extend(sub, d.outputs, c[key]))
    ELSE DirectiveFolded(<<Constraint(FoldQuadComb(s.quad, sub), FoldLinComb(s.lin, sub))>>,
                         c, sub)

\* DirectiveOptimizer::fold_statement
DirectiveFoldStatement(s, c, sub) ==
    IF s.k = "Directive" THEN
        LET d == FoldDirective(s, sub)
            key == <<d.solver, d.inputs>>
        IN IF key \notin DOMAIN c
           THEN DirectiveFolded(<<d>>, Insert(c, key, d.outputs), sub)
           ELSE DirectiveFolded(<<>>, c, Extend(sub, d.outputs, c[key]))
    ELSE DirectiveFolded(<<Constraint(FoldQuadComb(s.quad, sub), FoldLinComb(s.lin, sub))>>,
                         c, sub)

\* the ir variables and the statements of the programs given to the optimiser
IrVariables == {1, 2, 3}

DirectivePool ==
    { Directive(<<QuadComb(LinComb(v), LinComb(v))>>, <<o>>, solver) :
        v \in IrVariables, o \in IrVariables, solver \in {"Bits", "Div"} }
    \cup { Directive(<<QuadComb(LinComb(1), LinComb(2))>>, <<2, 3>>, "Div") }

ConstraintPool ==
    { Constraint(QuadComb(LinComb(v), LinComb(v)), LinComb(w)) :
        v \in IrVariables, w \in {1} }

InitDirective ==
    /\ irProg = NoStmt
    /\ lowered = Pending
    /\ flatIn = NoStmt
    /\ flatOut = Pending
    /\ calls = EmptyMap
    /\ idxMap = EmptyMap
    /\ idxCalls = <<>>
    /\ substitution = EmptyMap
    /\ dprog = <<>>
    /\ dout = <<>>
    /\ constants = EmptyMap
    /\ prog = <<>>
    /\ out = <<>>
    /\ err = NoErr
    /\ stmt = NoStmt
    /\ exprIn = NoneExpr
    /\ exprOut = Pending

\* fold_statement(s) called on the next statement of the ir program
DirectiveStep(s) ==
    /\ Len(dprog) < MaxIrStmts
    /\ LET r == DirectiveFoldStatement(s, calls, substitution) IN
         /\ dprog' = Append(dprog, s)
         /\ dout' = dout \o r.out
         /\ calls' = r.calls
         /\ substitution' = r.substitution
    /\ UNCHANGED <<constants, prog, out, err, stmt, exprIn, exprOut>>
    /\ UNCHANGED <<irProg, lowered, flatIn, flatOut>>
    /\ UNCHANGED <<idxMap, idxCalls>>

FoldDirectiveStatement == \E s \in DirectivePool : DirectiveStep(s)
FoldConstraintStatement == \E s \in ConstraintPool : DirectiveStep(s)

NextDirective ==
    \/ FoldDirectiveStatement
    \/ FoldConstraintStatement

SpecDirective == InitDirective /\ [][NextDirective]_vars

(***************************************************************************)
(* What a statement asks of a witness.  A witness gives every identifier a *)
(* value: a field element, a uint, a boolean or a sequence of those.  env  *)
(* holds the values the statements run so far have defined, w the witness  *)
(* read for every other identifier.                                        *)
(***************************************************************************)
Lookup(id, env, w) == IF id \in DOMAIN env THEN env[id] ELSE w[id]

\* the n bits of v, most significant first
BitsOf(v, n) == [i \in 1 .. n |-> (v \div Pow2(n - i)) % 2 = 1]

\* the number whose bits, most significant first, are bs
RECURSIVE NumberOf(_)
NumberOf(bs) ==
    IF bs = <<>> THEN 0
    ELSE (IF bs[Len(bs)] THEN 1 ELSE 0) + 2 * NumberOf(SubSeq(bs, 1, Len(bs) - 1))

RECURSIVE Eval(_, _, _)
RECURSIVE EvalElems(_, _, _)
EvalElems(elems, env, w) ==
    IF elems = <<>> THEN <<>>
    ELSE (IF Head(elems).k = "Spread" THEN Eval(Head(elems).array, env, w)
          ELSE <<Eval(Head(elems), env, w)>>) \o EvalElems(Tail(elems), env, w)

\* the value of expression e
Eval(e, env, w) ==
    CASE e.k \in {"Number", "UValue"} -> e.value
      [] e.k = "BValue" -> e.bvalue
      [] e.k \in {"Identifier", "ArrayIdentifier"} -> Lookup(e.id, env, w)
      [] e.k = "ArrayValue" -> EvalElems(e.elems, env, w)
      [] e.k \in FieldBinaryKinds -> FieldOp(e.k, Eval(e.left, env, w), Eval(e.right, env, w))
      [] e.k = "Neg" -> (0 - Eval(e.inner, env, w)) % P
      [] e.k = "Pos" -> Eval(e.inner, env, w)
      [] e.k = "Pow" -> FieldPow(Eval(e.left, env, w), Eval(e.right, env, w))
      [] e.k = "UAdd" -> Wrap(Eval(e.left, env, w) + Eval(e.right, env, w), e.bitwidth)
      [] e.k = "USub" -> Wrap(Eval(e.left, env, w) - Eval(e.right, env, w), e.bitwidth)
      [] e.k = "UFloorSub" -> Max(Eval(e.left, env, w) - Eval(e.right, env, w), 0)
      [] e.k = "UMult" -> Wrap(Eval(e.left, env, w) * Eval(e.right, env, w), e.bitwidth)
      [] e.k = "UDiv" -> Eval(e.left, env, w) \div Eval(e.right, env, w)
      [] e.k = "URem" -> Eval(e.left, env, w) % Eval(e.right, env, w)
      [] e.k = "UXor" -> BitXor(Eval(e.left, env, w), Eval(e.right, env, w))
      [] e.k = "UAnd" -> BitAnd(Eval(e.left, env, w), Eval(e.right, env, w))
      [] e.k = "UNot" -> (Pow2(e.bitwidth) - 1) - Eval(e.inner, env, w)
      [] e.k = "UNeg" -> Wrap(0 - Eval(e.inner, env, w), e.bitwidth)
      [] e.k = "UPos" -> Eval(e.inner, env, w)
      [] e.k \in {"FieldLt", "UintLt"} -> Eval(e.left, env, w) < Eval(e.right, env, w)
      [] e.k \in {"FieldLe", "UintLe"} -> Eval(e.left, env, w) <= Eval(e.right, env, w)
      [] e.k \in EqKinds -> Eval(e.left, env, w) = Eval(e.right, env, w)
      [] e.k = "Or" -> Eval(e.left, env, w) \/ Eval(e.right, env, w)
      [] e.k = "And" -> Eval(e.left, env, w) /\ Eval(e.right, env, w)
      [] e.k = "Not" -> ~Eval(e.inner, env, w)
      [] e.k = "Conditional" ->
            IF Eval(e.condition, env, w) THEN Eval(e.consequence, env, w)
            ELSE Eval(e.alternative, env, w)
      [] e.k = "Select" -> Eval(e.array, env, w)[Eval(e.index, env, w) + 1]

\* whether e has a value: no division by zero and no select out of bounds
RECURSIVE HasValue(_, _, _)
HasValue(e, env, w) ==
    CASE e.k \in {"Number", "UValue", "BValue", "Identifier", "ArrayIdentifier"} -> TRUE
      [] e.k = "ArrayValue" ->
            \A i \in 1 .. Len(e.elems) :
                HasValue(IF e.elems[i].k = "Spread" THEN e.elems[i].array ELSE e.elems[i], env, w)
      [] e.k = "Conditional" ->
            /\ HasValue(e.condition, env, w)
            /\ HasValue(e.consequence, env, w)
            /\ HasValue(e.alternative, env, w)
      [] e.k = "Select" ->
            /\ HasValue(e.array, env, w)
            /\ HasValue(e.index, env, w)
            /\ Eval(e.index, env, w) < Len(Eval(e.array, env, w))
      [] e.k \in {"Div", "UDiv", "URem"} ->
            /\ HasValue(e.left, env, w)
            /\ HasValue(e.right, env, w)
            /\ Eval(e.right, env, w) # 0
      [] "inner" \in DOMAIN e -> HasValue(e.inner, env, w)
      [] OTHER -> HasValue(e.left, env, w) /\ HasValue(e.right, env, w)

\* the outcome of running statements on a witness
Unsat == [ok |-> FALSE]
Sat(env) == [ok |-> TRUE, env |-> env]

\* the array cur with the element the assignee a names set to v, or not ok
\* when the index is out of bounds
AssignSlot(a, cur, v, env, w) ==
    IF a.k = "AssigneeIdentifier" THEN [ok |-> TRUE, v |-> v]
    ELSE LET i == Eval(a.index, env, w) IN
         IF i + 1 > Len(cur) THEN [ok |-> FALSE, v |-> v]
         ELSE [ok |-> TRUE, v |-> [cur EXCEPT ![i + 1] = v]]

\* the value an embed call returns; Unsat when the call has no solution
EmbedValue(s, env, w) ==
    LET arg(i) == Eval(s.arguments[i], env, w) IN
    CASE s.embed = "Unpack" ->
            IF arg(1) >= Pow2(s.generics[1]) THEN [ok |-> FALSE, v |-> <<>>]
            ELSE [ok |-> TRUE, v |-> BitsOf(arg(1), s.generics[1])]
      [] s.embed \in {"U8ToBits", "U16ToBits", "U32ToBits", "U64ToBits"} ->
            [ok |-> TRUE, v |-> BitsOf(arg(1), EmbedBitwidth(s.embed))]
      [] s.embed \in {"U8FromBits", "U16FromBits", "U32FromBits", "U64FromBits"} ->
            [ok |-> TRUE, v |-> NumberOf(arg(1))]
      [] s.embed = "BitArrayLe" ->
            [ok |-> TRUE, v |-> NumberOf(arg(1)) <= NumberOf(arg(2))]

RECURSIVE Run(_, _, _)
RECURSIVE RunFor(_, _, _, _, _)

\* the body of For statement s run for the loop variable from i up to to - 1
RunFor(s, i, to, env, w) ==
    IF i >= to THEN Sat(env)
    ELSE LET r == Run(s.statements, Insert(env, s.var.id, i), w) IN
         IF ~r.ok THEN r ELSE RunFor(s, i + 1, to, r.env, w)

\* the statements run in order from env: Sat(the values defined) when every
\* definition has a value and every assertion holds, and Unsat otherwise
Run(statements, env, w) ==
    IF statements = <<>> THEN Sat(env)
    ELSE LET s == Head(statements)
             rest == Tail(statements)
         IN CASE s.k = "Definition" ->
                    IF ~HasValue(s.rhs, env, w) THEN Unsat
                    ELSE IF s.assignee.k = "AssigneeIdentifier"
                    THEN Run(rest, Insert(env, s.assignee.var.id, Eval(s.rhs, env, w)), w)
                    ELSE LET root == RootOf(s.assignee).id
                             r == AssignSlot(s.assignee, Lookup(root, env, w),
                                             Eval(s.rhs, env, w), env, w)
                         IN IF ~r.ok THEN Unsat ELSE Run(rest, Insert(env, root, r.v), w)
              [] s.k = "EmbedCallDefinition" ->
                    LET r == EmbedValue(s, env, w) IN
                    IF ~r.ok THEN Unsat
                    ELSE Run(rest, Insert(env, RootOf(s.assignee).id, r.v), w)
              [] s.k = "Assertion" ->
                    IF HasValue(s.e, env, w) /\ Eval(s.e, env, w) THEN Run(rest, env, w)
                    ELSE Unsat
              [] s.k = "For" ->
                    LET r == RunFor(s, Eval(s.from, env, w), Eval(s.to, env, w), env, w) IN
                    IF ~r.ok THEN Unsat ELSE Run(rest, Remove(r.env, s.var.id), w)
              [] OTHER -> Run(rest, env, w)

\* the values of the arguments x, n, c the witnesses are drawn from
ArgumentValues == [x : {0, 2, 5}, n : {0, 2, 255}, c : BOOLEAN]

(***************************************************************************)
(* Claims                                                                  *)
(***************************************************************************)
\* C1: whenever propagation of the statements given so far has succeeded
\* with output out, propagating out again succeeds and returns out itself.
C1_Idempotent ==
    err = NoErr =>
        LET again == Propagate(out) IN again.ok /\ again.out = out

\* C1 witness: a program whose output holds a flushed constant, its
\* assignment and a folded definition has been propagated.
C1_Witness ==
    /\ err = NoErr
    /\ Len(out) >= 3
    /\ out # prog
    /\ \E i \in 1 .. Len(out) : out[i].k = "Definition" /\ IsConstant(out[i].rhs)

\* C2: for every witness that satisfies the statements given so far, the
\* witness satisfies the statements returned: they run to the end on it and
\* define the values the witness has.
C2_Sound ==
    err = NoErr =>
        \A args \in ArgumentValues :
            LET rp == Run(prog, args, args) IN
            rp.ok =>
                LET ro == Run(out, args, rp.env) IN
                ro.ok /\ \A v \in DOMAIN ro.env : ro.env[v] = rp.env[v]

\* the main body `a = 2 + 3; assert(a == 5)` and the definition `b = a * x`
DefA == Definition(AssigneeIdentifier(FieldVar("a")), Binary("Add", Num(2), Num(3), NoSpan))
DefB == Definition(AssigneeIdentifier(FieldVar("b")), Binary("Mult", FId("a"), FId("x"), NoSpan))
AssertA5 == Assertion(Binary("FieldEq", FId("a"), Num(5), NoSpan), "Source")

\* C3: once the main body `a = 2 + 3; assert(a == 5)` has been propagated,
\* the pass has succeeded and has emitted no statement.
C3_TrueAssertionElided ==
    prog = <<DefA, AssertA5>> => err = NoErr /\ out = <<>>

\* C4: a step folding Assertion(e, kind) whose e folds to the literal true
\* ends the pass with AssertionFailed, one whose e folds to the literal false
\* emits nothing, and any other emits exactly the one Assertion of the folded
\* expression and the same kind.
C4_AssertionArm ==
    [][(prog' # prog /\ stmt'.k = "Assertion") =>
          LET e == Fold(stmt'.e, constants) IN
          e.ok =>
              IF IsBValue(e.e) /\ e.e.bvalue
              THEN err'.kind = "AssertionFailed" /\ out' = out
              ELSE IF IsBValue(e.e)
              THEN err' = NoErr /\ out' = out /\ constants' = constants
              ELSE /\ err' = NoErr
                   /\ out' = Append(out, Assertion(e.e, stmt'.ty))
                   /\ constants' = constants]_vars

\* C4 witness: an assertion of kind SelectRangeCheck over a non-constant
\* condition has been folded with a constant bound, and emitted as it is.
C4_Witness ==
    /\ err = NoErr
    /\ stmt.k = "Assertion"
    /\ stmt.ty = "SelectRangeCheck"
    /\ constants # EmptyMap
    /\ out # <<>>
    /\ out[Len(out)] = stmt

\* the identifiers a folded statement reads where the propagator folds: the
\* bounds of a For, not its body
FoldedReads(s) ==
    IF s.k = "For" THEN Reads(s.from) \cup Reads(s.to) ELSE StatementReads(s)

\* statement s, folded under C, is a well-typed Definition of a plain
\* identifier not bound in C whose rhs folds to a constant
BindsConstant(s, C) ==
    /\ s.k = "Definition"
    /\ s.assignee.k = "AssigneeIdentifier"
    /\ s.assignee.var.id \notin DOMAIN C
    /\ LET e == Fold(s.rhs, C) IN
         e.ok /\ IsConstant(e.e) /\ GetType(e.e) = s.assignee.var.ty

\* the constants the pass holds before statement i of prog
ConstantsBefore(i) == Propagate(SubSeq(prog, 1, i - 1)).constants

\* the identifiers of prog a constant Definition has bound
BoundByDefinition ==
    { prog[i].assignee.var.id :
        i \in { j \in 1 .. Len(prog) : BindsConstant(prog[j], ConstantsBefore(j)) } }

\* the statements a step emits
Emitted == SubSeq(out', Len(out) + 1, Len(out'))

\* a step folding a constant Definition emits nothing and binds the
\* identifier to the canonical constant; `a = 2 + 3; b = a * x` yields
\* exactly `b := 5 * x`
BindsCanonical ==
    /\ BindsConstant(stmt', constants) =>
          /\ err' = NoErr
          /\ out' = out
          /\ constants' = Insert(constants, stmt'.assignee.var.id,
                                 IntoCanonicalConstant(Fold(stmt'.rhs, constants).e))
    /\ prog' = <<DefA, DefB>> =>
          out' = <<Definition(AssigneeIdentifier(FieldVar("b")),
                              Binary("Mult", Num(5), FId("x"), NoSpan))>>

SelectArray == Fold(exprIn.array, constants)
SelectIndex == Fold(exprIn.index, constants)

\* C6: a select whose array folds to a literal array of size n and whose
\* index folds to the literal i folds to element i of the array when i < n
\* and fails with OutOfBounds(i, n) when i >= n, whatever the spans of the
\* two literals.
C6_SelectBounds ==
    (/\ exprIn.k = "Select"
     /\ exprOut # Pending
     /\ SelectArray.ok /\ IsArrayValue(SelectArray.e)
     /\ SelectIndex.ok /\ IsUValue(SelectIndex.e)) =>
        LET i == SelectIndex.e.value
            n == SelectArray.e.size.value
        IN IF i < n THEN exprOut = Ok(SelectArray.e.elems[i + 1])
           ELSE exprOut = Err("OutOfBounds", <<i, n>>)

\* the base and the exponent of the power exprIn, folded
PowBase == Fold(exprIn.left, constants)
PowExponent == Fold(exprIn.right, constants)

\* C7: a power whose exponent folds to a non-literal fails with
\* NonConstantExponent; one whose exponent folds to the literal 0 folds to the
\* literal 1 whatever the base; one whose base and exponent fold to literals
\* folds to the literal base^exp of the field; one whose exponent alone folds
\* to a literal folds to a Pow node of the folded base and that exponent as a
\* 32-bit literal.
C7_Pow ==
    (exprIn.k = "Pow" /\ exprOut # Pending /\ PowBase.ok /\ PowExponent.ok) =>
        LET b == PowBase.e
            e == PowExponent.e
        IN IF ~IsUValue(e) THEN ~exprOut.ok /\ exprOut.err.kind = "NonConstantExponent"
           ELSE IF e.value = 0 THEN exprOut.ok /\ IsNumber(exprOut.e) /\ exprOut.e.value = 1
           ELSE IF IsNumber(b)
           THEN exprOut.ok /\ IsNumber(exprOut.e) /\ exprOut.e.value = (b.value ^ e.value) % P
           ELSE /\ exprOut.ok
                /\ exprOut.e.k = "Pow"
                /\ exprOut.e.left = b
                /\ IsUValue(exprOut.e.right)
                /\ exprOut.e.right.value = e.value
                /\ exprOut.e.right.bitwidth = 32

\* C7 witness: x ^ 0, with x not a constant, has folded to the literal 1.
C7_Witness ==
    /\ exprIn.k = "Pow"
    /\ PowBase.ok /\ ~IsNumber(PowBase.e)
    /\ PowExponent.ok /\ IsUValue(PowExponent.e) /\ PowExponent.e.value = 0
    /\ exprOut = Ok(Num(1))

\* C8: a step folding an Unpack call whose argument folds to the literal v,
\* of bit width b, ends the pass with ValueTooLarge when v > 2^b - 1, and
\* otherwise emits no statement and binds the assignee to the array of
\* exactly b boolean literals, most significant first, whose weighted sum is
\* v.
C8_Unpack ==
    [][(prog' # prog /\ stmt'.k = "EmbedCallDefinition" /\ stmt'.embed = "Unpack") =>
          LET v == Fold(stmt'.arguments[1], constants)
              b == stmt'.generics[1]
              id == stmt'.assignee.var.id
          IN (v.ok /\ IsNumber(v.e)) =>
                IF v.e.value > (2 ^ b) - 1
                THEN err'.kind = "ValueTooLarge" /\ out' = out
                ELSE /\ err' = NoErr
                     /\ out' = out
                     /\ id \in DOMAIN constants'
                     /\ IsArrayValue(constants'[id])
                     /\ LET bits == constants'[id].elems IN
                          /\ Len(bits) = b
                          /\ \A i \in 1 .. b : IsBValue(bits[i])
                          /\ NumberOf([i \in 1 .. b |-> bits[i].bvalue]) = v.e.value]_vars

\* C8 witness: 17 has been unpacked on 5 bits to [1, 0, 0, 0, 1], with no
\* statement emitted.
C8_Witness ==
    /\ err = NoErr
    /\ stmt.k = "EmbedCallDefinition"
    /\ stmt.embed = "Unpack"
    /\ stmt.generics = <<5>>
    /\ stmt.arguments = <<Num(17)>>
    /\ out = <<>>
    /\ "bits" \in DOMAIN constants
    /\ constants["bits"].elems =
          <<BValue(TRUE, NoSpan), BValue(FALSE, NoSpan), BValue(FALSE, NoSpan),
            BValue(FALSE, NoSpan), BValue(TRUE, NoSpan)>>

\* the condition and the branches of the conditional exprIn, folded
FoldedCondition == Fold(exprIn.condition, constants)
FoldedConsequence == Fold(exprIn.consequence, constants)
FoldedAlternative == Fold(exprIn.alternative, constants)

\* C9: a conditional folds to its folded consequence when its condition folds
\* to the literal true, to its folded alternative when it folds to the
\* literal false, to the one branch when the two folded branches are equal,
\* and otherwise to a conditional of the same kind over the folded condition
\* and branches.
C9_Conditional ==
    (/\ exprIn.k = "Conditional"
     /\ exprOut # Pending
     /\ FoldedCondition.ok /\ FoldedConsequence.ok /\ FoldedAlternative.ok) =>
        LET c == FoldedCondition.e
            a == FoldedConsequence.e
            b == FoldedAlternative.e
        IN IF IsBValue(c) /\ c.bvalue THEN exprOut = Ok(a)
           ELSE IF IsBValue(c) THEN exprOut = Ok(b)
           ELSE IF a = b THEN exprOut = Ok(a)
           ELSE /\ exprOut.ok
                /\ exprOut.e.k = "Conditional"
                /\ exprOut.e.kind = exprIn.kind
                /\ exprOut.e.condition = c
                /\ exprOut.e.consequence = a
                /\ exprOut.e.alternative = b

\* C9 witness: `if c then x else x`, with c and x not constant, has folded
\* to x.
C9_Witness ==
    /\ exprIn.k = "Conditional"
    /\ exprIn.condition = BId("c")
    /\ exprIn.consequence = FId("x")
    /\ exprIn.alternative = FId("x")
    /\ exprOut = Ok(FId("x"))

\* C10: no two Directive statements of the optimiser's output have the same
\* solver and equal input lists.
C10_NoDuplicateDirective ==
    \A i, j \in 1 .. Len(dout) :
        (i < j /\ dout[i].k = "Directive" /\ dout[j].k = "Directive") =>
            ~(dout[i].solver = dout[j].solver /\ dout[i].inputs = dout[j].inputs)

\* C10 witness: of three directives given, the second repeated the call of
\* the first and has been dropped, and the third has been emitted with its
\* input rewritten through the substitution.
C10_Witness ==
    /\ Len(dprog) = 3
    /\ \A i \in 1 .. 3 : dprog[i].k = "Directive"
    /\ Len(dout) = 2
    /\ substitution # EmptyMap
    /\ dout[2].inputs # dprog[3].inputs

\* the optimiser run over ir statements from its initial state
RECURSIVE DirectiveRun(_)
DirectiveRun(statements) ==
    IF statements = <<>> THEN DirectiveFolded(<<>>, EmptyMap, EmptyMap)
    ELSE LET before == DirectiveRun(SubSeq(statements, 1, Len(statements) - 1))
             r == DirectiveFoldStatement(statements[Len(statements)],
                                         before.calls, before.substitution)
         IN DirectiveFolded(before.out \o r.out, r.calls, r.substitution)

\* the variables of a linear combination, of a quadratic combination and of
\* an ir statement, in the order they occur
LinCombVariables(l) == [i \in 1 .. Len(l) |-> l[i][1]]
QuadCombVariables(q) == LinCombVariables(q.left) \o LinCombVariables(q.right)
RECURSIVE InputsVariables(_)
InputsVariables(inputs) ==
    IF inputs = <<>> THEN <<>>
    ELSE QuadCombVariables(Head(inputs)) \o InputsVariables(Tail(inputs))
IrVariablesOf(s) ==
    IF s.k = "Directive" THEN InputsVariables(s.inputs) \o s.outputs
    ELSE QuadCombVariables(s.quad) \o LinCombVariables(s.lin)

\* the output variables of the directives among statements
RECURSIVE DirectiveOutputs(_)
DirectiveOutputs(statements) ==
    IF statements = <<>> THEN <<>>
    ELSE (IF Head(statements).k = "Directive" THEN Head(statements).outputs ELSE <<>>)
         \o DirectiveOutputs(Tail(statements))

\* no variable is the output of two directives: the ir is in single
\* assignment form
SingleAssignment(statements) ==
    LET outs == DirectiveOutputs(statements) IN
    \A i, j \in 1 .. Len(outs) : i # j => outs[i] # outs[j]

\* the key of directive s once its inputs are rewritten through sub
RewrittenKey(s, sub) ==
    <<s.solver, [i \in 1 .. Len(s.inputs) |-> FoldQuadComb(s.inputs[i], sub)]>>

\* statement i of dprog was a directive met with its key already recorded
MetRecorded(i) ==
    /\ dprog[i].k = "Directive"
    /\ LET before == DirectiveRun(SubSeq(dprog, 1, i - 1)) IN
         RewrittenKey(dprog[i], before.substitution) \in DOMAIN before.calls

\* the outputs of the first directive recorded under the key of statement i
FirstOutputs(i) ==
    LET before == DirectiveRun(SubSeq(dprog, 1, i - 1)) IN
    before.calls[RewrittenKey(dprog[i], before.substitution)]

MaxRows == 2
MaxReturns == 2

\* Variable::one(), Variable::public(i), Variable::new(i)
VariableOne == 0
VariablePublic(i) == 0 - (i + 1)
VariableNew(i) == i + 1

Parameter(id, private) == [id |-> id, private |-> private]
IrProg(arguments, return_count, statements) ==
    [arguments |-> arguments, return_count |-> return_count, statements |-> statements]

\* ir::Prog::returns
Returns(p) == [i \in 1 .. p.return_count |-> VariablePublic(i - 1)]

\* the little-endian bytes of n, len of them
RECURSIVE LeBytes(_, _)
LeBytes(n, len) ==
    IF len = 0 THEN <<>> ELSE <<n % 256>> \o LeBytes(n \div 256, len - 1)

\* the number whose little-endian bytes are bytes
RECURSIVE FromLeBytes(_)
FromLeBytes(bytes) ==
    IF bytes = <<>> THEN 0 ELSE Head(bytes) + 256 * FromLeBytes(Tail(bytes))

Reverse(seq) == [i \in 1 .. Len(seq) |-> seq[Len(seq) + 1 - i]]

\* Field::to_byte_vector of the bn128 field: 32 bytes, least significant first
FieldByteLen == 32
ToByteVector(val) == LeBytes(val, FieldByteLen)

\* a variant of vec_as_u8_32_array copying the bytes in the order of the vector
VecAsU832ArraySameOrder(vec) ==
    [i \in 1 .. 32 |-> IF i <= Len(vec) THEN vec[i] ELSE 0]

\* vec_as_u8_32_array: array[31 - index] = vec[index]
VecAsU832Array(vec) ==
    [i \in 1 .. 32 |-> IF 32 - i < Len(vec) THEN vec[32 - i + 1] ELSE 0]

\* a variant of provide_variable_idx that inserts the length for a known
\* variable too
ProvideVariableIdxInserting(variables, var) ==
    Insert(variables, var, Cardinality(DOMAIN variables))

\* provide_variable_idx: the map after the call
ProvideVariableIdx(variables, var) ==
    IF var \in DOMAIN variables THEN variables
    ELSE Insert(variables, var, Cardinality(DOMAIN variables))

\* provide_variable_idx on each variable of a sequence in order
RECURSIVE ProvideAll(_, _)
ProvideAll(variables, seq) ==
    IF seq = <<>> THEN variables
    ELSE ProvideAll(ProvideVariableIdx(variables, Head(seq)), Tail(seq))

\* a variant of the first pass that scans the directives as well
RECURSIVE StatementVariables(_)
StatementVariables(statements) ==
    IF statements = <<>> THEN <<>>
    ELSE IrVariablesOf(Head(statements)) \o StatementVariables(Tail(statements))

\* the variables of the constraints among statements, in the order of the
\* first pass: quad.left, quad.right, lin of each
RECURSIVE ConstraintVariables(_)
ConstraintVariables(statements) ==
    IF statements = <<>> THEN <<>>
    ELSE (IF Head(statements).k = "Constraint" THEN IrVariablesOf(Head(statements)) ELSE <<>>)
         \o ConstraintVariables(Tail(statements))

\* `.map(|(k, v)| (*variables.get(&k).unwrap(), v))`
SparseRow(lin, variables) == [i \in 1 .. Len(lin) |-> <<variables[lin[i][1]], lin[i][2]>>]

\* a variant of r1cs_program's first loop that registers private arguments too
PublicArgumentsUnfiltered(arguments) ==
    [i \in 1 .. Len(arguments) |-> arguments[i].id]

\* `prog.arguments.iter().filter(|p| !p.private)`
PublicArguments(arguments) ==
    LET public == SelectSeq(arguments, LAMBDA a : ~a.private) IN
    [i \in 1 .. Len(public) |-> public[i].id]

\* r1cs_program
R1csProgram(p) ==
    LET one == ProvideVariableIdx(EmptyMap, VariableOne)
        arguments == ProvideAll(one, PublicArguments(p.arguments))
        returns == ProvideAll(arguments, Returns(p))
        private_inputs_offset == Cardinality(DOMAIN returns)
        variables == ProvideAll(returns, ConstraintVariables(p.statements))
        rows == SelectSeq(p.statements, LAMBDA s : s.k = "Constraint")
        constraints == [i \in 1 .. Len(rows) |->
                          <<SparseRow(rows[i].quad.left, variables),
                            SparseRow(rows[i].quad.right, variables),
                            SparseRow(rows[i].lin, variables)>>]
        variables_list == [i \in 1 .. Cardinality(DOMAIN variables) |->
                              CHOOSE k \in DOMAIN variables : variables[k] = i - 1]
    IN [variables |-> variables_list,
        public_variables_count |-> private_inputs_offset,
        constraints |-> constraints]

\* the sizes and offsets of the record { i32, i32, i8[32] }
STRUCT_SIZE == 40
ROW_SIZE == 4
IDX_SIZE == 4
IDX_OFFSET == 4
VALUE_SIZE == 32
VALUE_OFFSET == 8

\* a_vec, b_vec or c_vec: the (row, idx, value) tuples of matrix m in 1 .. 3,
\* rows counted from first
RECURSIVE MatrixVec(_, _, _)
MatrixVec(constraints, m, first) ==
    IF constraints = <<>> THEN <<>>
    ELSE LET lin == Head(constraints)[m] IN
         [i \in 1 .. Len(lin) |->
             <<first, lin[i][1], VecAsU832Array(ToByteVector(lin[i][2]))>>]
         \o MatrixVec(Tail(constraints), m, first + 1)

\* a_arr, b_arr or c_arr: the byte at offset o - 1 of the buffer
MatrixArr(vec) ==
    [o \in 1 .. STRUCT_SIZE * Len(vec) |->
        LET id == (o - 1) \div STRUCT_SIZE
            x == (o - 1) % STRUCT_SIZE
            row_bytes == LeBytes(vec[id + 1][1], ROW_SIZE)
            idx_bytes == LeBytes(vec[id + 1][2], IDX_SIZE)
            val == vec[id + 1][3]
        IN IF x >= VALUE_OFFSET THEN val[x - VALUE_OFFSET + 1]
           ELSE IF x >= IDX_OFFSET THEN idx_bytes[x - IDX_OFFSET + 1]
           ELSE row_bytes[x + 1]]

\* prepare_setup
PrepareSetup(p) ==
    LET r == R1csProgram(p)
        a_vec == MatrixVec(r.constraints, 1, 0)
        b_vec == MatrixVec(r.constraints, 2, 0)
        c_vec == MatrixVec(r.constraints, 3, 0)
    IN [a_arr |-> MatrixArr(a_vec), b_arr |-> MatrixArr(b_vec), c_arr |-> MatrixArr(c_vec),
        a_vec |-> a_vec, b_vec |-> b_vec, c_vec |-> c_vec,
        num_constraints |-> Len(r.constraints),
        num_variables |-> Len(r.variables),
        num_inputs |-> r.public_variables_count - 1]

\* `vec![[0u8; 32]; n]`
ZeroRecords(n) == [i \in 1 .. n |-> [j \in 1 .. 32 |-> 0]]

\* a variant of the private buffer's length without the max
PrivateBufferLenUnpadded(private_inputs_length) == private_inputs_length

\* `max(private_inputs_length, 1)`
PrivateBufferLen(private_inputs_length) == Max(private_inputs_length, 1)

\* prepare_generate_proof
PrepareGenerateProof(p, witness) ==
    LET r == R1csProgram(p)
        values == [i \in 1 .. Len(r.variables) |-> witness[r.variables[i]]]
        public_inputs == SubSeq(values, 1, r.public_variables_count)
        private_inputs == SubSeq(values, r.public_variables_count + 1, Len(values))
        private_inputs_arr == ZeroRecords(PrivateBufferLen(Len(private_inputs)))
    IN [public_inputs_arr |->
            [i \in 1 .. Len(public_inputs) |-> VecAsU832Array(ToByteVector(public_inputs[i]))],
        public_inputs_length |-> Len(public_inputs),
        private_inputs_arr |->
            [i \in 1 .. Len(private_inputs_arr) |->
                IF i <= Len(private_inputs)
                THEN VecAsU832Array(ToByteVector(private_inputs[i]))
                ELSE private_inputs_arr[i]],
        private_inputs_length |-> Len(private_inputs)]

\* the programs handed to the preparation: main has up to two arguments, each
\* private or not, up to MaxReturns returns and up to MaxRows statements
ArgumentLists ==
    {<<>>}
    \cup { <<Parameter(VariableNew(0), a)>> : a \in BOOLEAN }
    \cup { <<Parameter(VariableNew(0), a), Parameter(VariableNew(1), b)>> : a, b \in BOOLEAN }

\* linear combinations as upstream passes leave them: terms may repeat a
\* variable or carry a zero coefficient
LinCombPool ==
    { <<>>, LinComb(1), LinComb(3), <<<<2, 258>>, <<VariablePublic(0), 1>>>>,
      <<<<3, 0>>>>, <<<<2, 1>>, <<2, 1>>>> }

IrStatementPool ==
    { Constraint(QuadComb(LinComb(1), LinComb(2)), LinComb(3)),
      Constraint(QuadComb(<<<<2, 258>>, <<VariablePublic(0), 1>>>>, LinComb(VariableOne)), LinComb(4)),
      Constraint(QuadComb(<<<<3, 0>>>>, <<<<2, 1>>, <<2, 1>>>>), <<>>),
      Constraint(QuadComb(LinComb(4), LinComb(1)), LinComb(VariablePublic(1))),
      Directive(<<QuadComb(LinComb(1), LinComb(2))>>, <<5>>, "Div") }

RECURSIVE StatementLists(_)
StatementLists(n) ==
    IF n = 0 THEN {<<>>}
    ELSE StatementLists(n - 1)
         \cup { Append(l, s) : l \in { x \in StatementLists(n - 1) : Len(x) = n - 1 },
                               s \in IrStatementPool }

IrProgPool ==
    { IrProg(a, r, l) : a \in ArgumentLists, r \in 0 .. MaxReturns, l \in StatementLists(MaxRows) }

\* witnesses: a value for every variable a program of the pool can name
WitnessVariables == (0 - MaxReturns - 1) .. 5
WitnessPool ==
    { [v \in WitnessVariables |-> IF v = VariableOne THEN 1 ELSE v + 300],
      [v \in WitnessVariables |-> IF v = VariableOne THEN 1 ELSE 7] }

InitLibsnark ==
    /\ irProg \in IrProgPool
    /\ lowered = Pending
    /\ flatIn = NoStmt
    /\ flatOut = Pending
    /\ calls = EmptyMap
    /\ idxMap = EmptyMap
    /\ idxCalls = <<>>
    /\ substitution = EmptyMap
    /\ dprog = <<>>
    /\ dout = <<>>
    /\ constants = EmptyMap
    /\ prog = <<>>
    /\ out = <<>>
    /\ err = NoErr
    /\ stmt = NoStmt
    /\ exprIn = NoneExpr
    /\ exprOut = Pending

LibsnarkCall(result) ==
    /\ lowered = Pending
    /\ lowered' = result
    /\ UNCHANGED <<constants, prog, out, err, stmt, exprIn, exprOut>>
    /\ UNCHANGED <<calls, substitution, dprog, dout, irProg, flatIn, flatOut>>
    /\ UNCHANGED <<idxMap, idxCalls>>

CallR1csProgram ==
    LibsnarkCall([ok |-> TRUE, op |-> "r1cs_program", r |-> R1csProgram(irProg)])
CallPrepareSetup ==
    LibsnarkCall([ok |-> TRUE, op |-> "prepare_setup", r |-> PrepareSetup(irProg)])
CallPrepareGenerateProof ==
    \E witness \in WitnessPool :
        LibsnarkCall([ok |-> TRUE, op |-> "prepare_generate_proof", witness |-> witness,
                      r |-> PrepareGenerateProof(irProg, witness)])

NextLibsnark ==
    \/ CallR1csProgram
    \/ CallPrepareSetup
    \/ CallPrepareGenerateProof

SpecLibsnark == InitLibsnark /\ [][NextLibsnark]_vars

\* the arguments of irProg that are not private, in source order
NonPrivate == SelectSeq(irProg.arguments, LAMBDA a : ~a.private)

\* C12: r1cs_program returns variables[0] = one(), then the K non-private
\* arguments in source order, then public(0) .. public(R-1), and
\* public_variables_count = 1 + K + R.
C12_ColumnOrder ==
    lowered.ok /\ lowered.op = "r1cs_program" =>
        LET K == Len(NonPrivate)
            R == irProg.return_count
            variables == lowered.r.variables
        IN /\ lowered.r.public_variables_count = 1 + K + R
           /\ Len(variables) >= 1 + K + R
           /\ variables[1] = VariableOne
           /\ \A i \in 1 .. K : variables[1 + i] = NonPrivate[i].id
           /\ \A i \in 0 .. R - 1 : variables[1 + K + i + 1] = VariablePublic(i)

\* C12 witness: a program with a private first argument, a public second
\* one, two returns and a constraint has been lowered.
C12_Witness ==
    /\ lowered.ok /\ lowered.op = "r1cs_program"
    /\ Len(irProg.arguments) = 2
    /\ irProg.arguments[1].private /\ ~irProg.arguments[2].private
    /\ irProg.return_count = 2
    /\ Len(lowered.r.constraints) > 0
    /\ Len(lowered.r.variables) > lowered.r.public_variables_count
    /\ lowered.r.variables[2] = irProg.arguments[2].id

\* the (row, column, value) entries of matrix m in 1 .. 3 of the lowered
\* irProg, rows counted from first
RECURSIVE Entries(_, _, _)
Entries(constraints, m, first) ==
    IF constraints = <<>> THEN <<>>
    ELSE [i \in 1 .. Len(Head(constraints)[m]) |->
             <<first, Head(constraints)[m][i][1], Head(constraints)[m][i][2]>>]
         \o Entries(Tail(constraints), m, first + 1)
MatrixEntries(m) == Entries(R1csProgram(irProg).constraints, m, 0)

\* the byte buffer prepare_setup returned for matrix m
MatrixBuffer(m) ==
    IF m = 1 THEN lowered.r.a_arr ELSE IF m = 2 THEN lowered.r.b_arr ELSE lowered.r.c_arr

\* record id (from 0) of a buffer, and the byte at an offset of a record
RecordAt(buffer, id) == SubSeq(buffer, 40 * id + 1, 40 * id + 40)
ByteAt(record, offset) == record[offset + 1]

\* what a reader of the record takes from it: the two little-endian i32 and
\* the field element of the big-endian value
DecodeRecord(record) ==
    <<FromLeBytes(SubSeq(record, 1, 4)),
      FromLeBytes(SubSeq(record, 5, 8)),
      FromLeBytes(Reverse(SubSeq(record, 9, 40)))>>

\* C13: for every (row, column, value) entry prepare_setup writes one 40-byte
\* record: row little-endian at offset 0, column little-endian at offset 4,
\* the value at offset 8 with byte 31-i equal to byte i of the element's byte
\* vector; decoding the record gives the entry back.
C13_RecordLayout ==
    lowered.ok /\ lowered.op = "prepare_setup" =>
        \A m \in 1 .. 3 :
            /\ Len(MatrixBuffer(m)) = 40 * Len(MatrixEntries(m))
            /\ \A id \in 0 .. Len(MatrixEntries(m)) - 1 :
                  LET entry == MatrixEntries(m)[id + 1]
                      record == RecordAt(MatrixBuffer(m), id)
                  IN /\ Len(record) = 40
                     /\ \A x \in 0 .. 3 :
                           /\ ByteAt(record, x) = (entry[1] \div (256 ^ x)) % 256
                           /\ ByteAt(record, 4 + x) = (entry[2] \div (256 ^ x)) % 256
                     /\ \A i \in 0 .. 31 :
                           ByteAt(record, 8 + 31 - i) = ToByteVector(entry[3])[i + 1]
                     /\ DecodeRecord(record) = entry

\* C13 witness: the setup of a program whose second row has the coefficient
\* 258, of two non-zero bytes, in a column other than 0.
C13_Witness ==
    /\ lowered.ok /\ lowered.op = "prepare_setup"
    /\ \E id \in 0 .. Len(MatrixEntries(1)) - 1 :
          /\ MatrixEntries(1)[id + 1][1] = 1
          /\ MatrixEntries(1)[id + 1][2] > 0
          /\ MatrixEntries(1)[id + 1][3] = 258
          /\ ByteAt(RecordAt(lowered.r.a_arr, id), 39) = 2
          /\ ByteAt(RecordAt(lowered.r.a_arr, id), 38) = 1

\* the coefficient of matrix m at (row, column): the sum of the terms of
\* that row naming that column
RECURSIVE SumAt(_, _)
SumAt(lin, column) ==
    IF lin = <<>> THEN 0
    ELSE (IF Head(lin)[1] = column THEN Head(lin)[2] ELSE 0) + SumAt(Tail(lin), column)

\* the number of non-zero coefficients of matrix m of the lowered irProg
NonZeroCoefficients(m) ==
    LET r == R1csProgram(irProg) IN
    Cardinality({ rc \in (1 .. Len(r.constraints)) \X (0 .. Len(r.variables) - 1) :
                    SumAt(r.constraints[rc[1]][m], rc[2]) # 0 })

\* C14: prepare_setup emits one record per non-zero coefficient of A, B and
\* C, so each buffer is 40 bytes times the number of non-zero coefficients of
\* its matrix; num_constraints is the number of constraint rows and
\* num_inputs is public_variables_count - 1.
C14_OneRecordPerNonZero ==
    lowered.ok /\ lowered.op = "prepare_setup" =>
        /\ \A m \in 1 .. 3 : Len(MatrixBuffer(m)) = 40 * NonZeroCoefficients(m)
        /\ lowered.r.num_constraints =
              Len(SelectSeq(irProg.statements, LAMBDA s : s.k = "Constraint"))
        /\ lowered.r.num_inputs = R1csProgram(irProg).public_variables_count - 1

\* the 32-byte encoding of a field element: most significant byte first
Encoding32(value) == Reverse(ToByteVector(value))

\* C15: prepare_generate_proof returns, in column order, the encodings of the
\* witness values of the first public_variables_count columns as the public
\* slice and those of the remaining columns as the private slice; with no
\* private column the private buffer is one all-zero record and the reported
\* private length is 0.
C15_WitnessSplit ==
    lowered.ok /\ lowered.op = "prepare_generate_proof" =>
        LET r == R1csProgram(irProg)
            count == r.public_variables_count
            rest == Len(r.variables) - count
        IN /\ lowered.r.public_inputs_length = count
           /\ Len(lowered.r.public_inputs_arr) = count
           /\ \A i \in 1 .. count :
                 lowered.r.public_inputs_arr[i] = Encoding32(lowered.witness[r.variables[i]])
           /\ lowered.r.private_inputs_length = rest
           /\ IF rest = 0
              THEN lowered.r.private_inputs_arr = <<[j \in 1 .. 32 |-> 0]>>
              ELSE /\ Len(lowered.r.private_inputs_arr) = rest
                   /\ \A i \in 1 .. rest :
                         lowered.r.private_inputs_arr[i] =
                             Encoding32(lowered.witness[r.variables[count + i]])

\* C15 witness: a proof prepared for a program with a public argument, a
\* return and no private column, on a witness with a value of two bytes.
C15_Witness ==
    /\ lowered.ok /\ lowered.op = "prepare_generate_proof"
    /\ lowered.r.public_inputs_length = 3
    /\ lowered.r.private_inputs_length = 0
    /\ Len(lowered.r.private_inputs_arr) = 1
    /\ lowered.r.public_inputs_arr[2][31] = 1
    /\ Len(irProg.statements) > 0

\* C15 witness of the other case: private columns follow the public ones.
C15_WitnessPrivate ==
    /\ lowered.ok /\ lowered.op = "prepare_generate_proof"
    /\ lowered.r.private_inputs_length = 2
    /\ lowered.r.private_inputs_arr[2][31] = 1

(***************************************************************************)
(* Flat expressions: Number, Identifier, Add, Sub and Mult nodes, each     *)
(* with its span.                                                          *)
(***************************************************************************)
MaxFlatVar == 2

FlatNumber(value, sp) == [k |-> "Number", value |-> value, span |-> sp]
FlatIdentifier(id, sp) == [k |-> "Identifier", id |-> id, span |-> sp]
FlatBinary(op, left, right, sp) == [k |-> op, left |-> left, right |-> right, span |-> sp]

\* Variable::apply_substitution: the variable sigma names for v, v when it
\* names none
VariableApplySubstitution(v, sigma) == IF v \in DOMAIN sigma THEN sigma[v] ELSE v

\* a variant of BinaryExpression::apply_substitution that rebuilds the node
\* as a Mult
BinaryApplySubstitutionAsMult(e, left, right) == FlatBinary("Mult", left, right, e.span)

\* BinaryExpression::apply_substitution, given the rewritten operands
BinaryApplySubstitution(e, left, right) == FlatBinary(e.k, left, right, e.span)

\* FlatExpression::apply_substitution
RECURSIVE ApplySubstitution(_, _)
ApplySubstitution(e, sigma) ==
    CASE e.k = "Number" -> e
      [] e.k = "Identifier" -> [e EXCEPT !.id = VariableApplySubstitution(e.id, sigma)]
      [] OTHER -> BinaryApplySubstitution(e, ApplySubstitution(e.left, sigma),
                                          ApplySubstitution(e.right, sigma))

\* a variant of is_linear taking a Mult for linear when its operands are
MultOfAtoms(left, right) == TRUE

\* the three operand pairs is_linear accepts under a Mult
MultIsLinear(left, right) ==
    \/ left.k = "Number" /\ right.k = "Number"
    \/ left.k = "Number" /\ right.k = "Identifier"
    \/ left.k = "Identifier" /\ right.k = "Number"

\* FlatExpression::is_linear
RECURSIVE IsLinear(_)
IsLinear(e) ==
    CASE e.k \in {"Number", "Identifier"} -> TRUE
      [] e.k \in {"Add", "Sub"} -> IsLinear(e.left) /\ IsLinear(e.right)
      [] e.k = "Mult" -> MultIsLinear(e.left, e.right)

FlatAtoms ==
    {FlatNumber(2, NoSpan)} \cup { FlatIdentifier(v, sp) : v \in 1 .. MaxFlatVar, sp \in {NoSpan} }
FlatOver(operands) ==
    FlatAtoms \cup { FlatBinary(op, l, r, NoSpan) :
                        op \in {"Add", "Sub", "Mult"}, l \in operands, r \in operands }
FlatPool == FlatOver(FlatOver(FlatAtoms)) \cup {FlatBinary("Add", FlatNumber(1, S1), FlatIdentifier(1, S1), S1)}

SubstitutionPool ==
    { EmptyMap,
      [v \in {1} |-> 2],
      [v \in {1, 2} |-> IF v = 1 THEN MaxFlatVar + 1 ELSE 1],
      [v \in {2} |-> 2] }

InitFlat ==
    /\ flatIn \in [e : FlatPool, sigma : SubstitutionPool]
    /\ flatOut = Pending
    /\ irProg = NoStmt
    /\ lowered = Pending
    /\ calls = EmptyMap
    /\ idxMap = EmptyMap
    /\ idxCalls = <<>>
    /\ substitution = EmptyMap
    /\ dprog = <<>>
    /\ dout = <<>>
    /\ constants = EmptyMap
    /\ prog = <<>>
    /\ out = <<>>
    /\ err = NoErr
    /\ stmt = NoStmt
    /\ exprIn = NoneExpr
    /\ exprOut = Pending

FlatCall(result) ==
    /\ flatOut = Pending
    /\ flatOut' = result
    /\ UNCHANGED <<constants, prog, out, err, stmt, exprIn, exprOut>>
    /\ UNCHANGED <<calls, substitution, dprog, dout, irProg, lowered, flatIn>>
    /\ UNCHANGED <<idxMap, idxCalls>>

CallApplySubstitution ==
    FlatCall([ok |-> TRUE, op |-> "apply_substitution",
              e |-> ApplySubstitution(flatIn.e, flatIn.sigma)])
CallIsLinear ==
    FlatCall([ok |-> TRUE, op |-> "is_linear", linear |-> IsLinear(flatIn.e)])

NextFlat ==
    \/ CallApplySubstitution
    \/ CallIsLinear

SpecFlat == InitFlat /\ [][NextFlat]_vars

\* the variables of a flat expression in the order they occur
RECURSIVE FlatVariables(_)
FlatVariables(e) ==
    CASE e.k = "Number" -> <<>>
      [] e.k = "Identifier" -> <<e.id>>
      [] OTHER -> FlatVariables(e.left) \o FlatVariables(e.right)

\* C16: for every flat expression e and substitution sigma, apply_substitution
\* replaces each variable v by sigma(v) when sigma has it and leaves it alone
\* otherwise, and is_linear(e) implies is_linear(e.apply_substitution(sigma)).
C16_LinearityPreserved ==
    flatOut.ok /\ flatOut.op = "apply_substitution" =>
        /\ IsLinear(flatIn.e) => IsLinear(flatOut.e)
        /\ Len(FlatVariables(flatOut.e)) = Len(FlatVariables(flatIn.e))
        /\ \A i \in 1 .. Len(FlatVariables(flatIn.e)) :
              LET v == FlatVariables(flatIn.e)[i] IN
              FlatVariables(flatOut.e)[i] =
                  IF v \in DOMAIN flatIn.sigma THEN flatIn.sigma[v] ELSE v

\* C16 witness: a linear sum over a product Number x Identifier whose
\* variable the substitution renames has been rewritten.
C16_Witness ==
    /\ flatOut.ok /\ flatOut.op = "apply_substitution"
    /\ flatIn.e.k = "Add"
    /\ flatIn.e.left.k = "Mult"
    /\ flatIn.e.left.right = FlatIdentifier(1, NoSpan)
    /\ flatIn.e.right = FlatIdentifier(2, NoSpan)
    /\ IsLinear(flatIn.e)
    /\ flatIn.sigma = [v \in {1} |-> 2]
    /\ flatOut.e.left.right = FlatIdentifier(2, NoSpan)
    /\ flatOut.e # flatIn.e

\* the folded operands of the binary node exprIn
FoldedLeft == Fold(exprIn.left, constants).e
FoldedRight == Fold(exprIn.right, constants).e

\* the constant a literal stands for, whatever spans its nodes carry
RECURSIVE ConstantValue(_)
ConstantValue(e) ==
    IF e.k = "ArrayValue"
    THEN [i \in 1 .. Len(FlattenElems(e.elems)) |-> ConstantValue(FlattenElems(e.elems)[i])]
    ELSE IF e.k = "BValue" THEN e.bvalue
    ELSE e.value

\* C17: folding an equality whose folded operands are structurally equal
\* gives the literal true; with two constant operands it gives the literal
\* saying whether the two constants are equal; otherwise it gives the
\* equality node over the folded operands, never the literal false.
C17_Equality ==
    (exprOut.ok /\ exprIn.k \in EqKinds) =>
        IF FoldedLeft = FoldedRight THEN exprOut.e = BValue(TRUE, NoSpan)
        ELSE IF IsConstant(FoldedLeft) /\ IsConstant(FoldedRight)
        THEN exprOut.e = BValue(ConstantValue(FoldedLeft) = ConstantValue(FoldedRight), NoSpan)
        ELSE exprOut.e = Binary(exprIn.k, FoldedLeft, FoldedRight, NoSpan)

C18_WitnessEqual ==
    /\ exprOut.ok
    /\ exprIn = Binary("FieldLe", Num(4), Number(4, S1), NoSpan)
    /\ exprOut.e = BValue(TRUE, NoSpan)

\* the statement a step was given, with its assignee and rhs folded under the
\* constants held before the step
GivenAssignee == FoldAssignee(stmt'.assignee, constants)
GivenRhs == Fold(stmt'.rhs, constants)
GivenRoot == RootOf(stmt'.assignee)

\* a step folds a well-typed Definition whose rhs folds to a non-constant
NonConstantDefinition ==
    /\ prog' # prog
    /\ stmt'.k = "Definition"
    /\ GivenAssignee.ok /\ GivenRhs.ok
    /\ AssigneeType(GivenAssignee.e) = GetType(GivenRhs.e)
    /\ ~IsConstant(GivenRhs.e)

\* C19: when a Definition's rhs folds to a non-constant and the root v of its
\* assignee is bound to c, the step emits exactly `v := c; assignee := rhs`
\* in that order; when v is not bound it emits exactly `assignee := rhs`; in
\* both cases v is unbound afterwards and every other entry is unchanged.
C19_NonConstantDefinition ==
    [][NonConstantDefinition =>
          LET def == Definition(GivenAssignee.e, GivenRhs.e) IN
          /\ err' = NoErr
          /\ IF GivenRoot.id \in DOMAIN constants
             THEN Emitted = <<Definition(AssigneeIdentifier(GivenRoot), constants[GivenRoot.id]),
                              def>>
             ELSE Emitted = <<def>>
          /\ GivenRoot.id \notin DOMAIN constants'
          /\ DOMAIN constants' = DOMAIN constants \ {GivenRoot.id}
          /\ \A id \in DOMAIN constants' : constants'[id] = constants[id]]_vars

\* C19 witness: `a = 2 + 3; arr = [1, 2]; arr[0] = x` has been folded to
\* `arr := [1, 2]; arr[0] := x`, with arr unbound and a still bound to 5.
C19_Witness ==
    /\ Len(prog) = 3
    /\ prog[3] = Definition(AssigneeSelect(AssigneeIdentifier(Variable("arr", FieldArray2)),
                                           U32Lit(0)), FId("x"))
    /\ err = NoErr
    /\ out = <<Definition(AssigneeIdentifier(Variable("arr", FieldArray2)), ArrLit(Num(1), Num(2))),
               prog[3]>>
    /\ DOMAIN constants = {"a"}
    /\ constants["a"] = Num(5)

(***************************************************************************)
(* Definitions assigning to a projection of an array, a struct or a tuple, *)
(* folded under constants that bind the roots or do not.                   *)
(***************************************************************************)
MaxSlotStmts == 2

\* StructExpressionInner::Value and TupleExpressionInner::Value, annotated
StructValue(elems, ty) == [k |-> "StructValue", elems |-> elems, ty |-> ty, span |-> NoSpan]
TupleValue(elems, ty) == [k |-> "TupleValue", elems |-> elems, ty |-> ty, span |-> NoSpan]

Matrix2 == ArrayType(FieldArray2, 2)
Struct1 == StructType(<<[id |-> "f", ty |-> FieldType], [id |-> "h", ty |-> FieldArray2]>>)
Tuple1 == TupleType(<<FieldType, FieldArray2>>)

ArrRoot == AssigneeIdentifier(Variable("arr", FieldArray2))
MatrixRoot == AssigneeIdentifier(Variable("m", Matrix2))
StructRoot == AssigneeIdentifier(Variable("s", Struct1))
TupleRoot == AssigneeIdentifier(Variable("t", Tuple1))

\* the constants the definitions are folded under: none, or every root bound
SlotConstants ==
    { EmptyMap,
      [id \in {"a", "arr", "m", "s", "t"} |->
          CASE id = "a" -> Num(5)
            [] id = "arr" -> ArrLit(Num(1), Num(2))
            [] id = "m" -> ArrayValue(<<ArrLit(Num(1), Num(2)), ArrLit(Num(3), Num(4))>>,
                                      FieldArray2, U32Lit(2), NoSpan)
            [] id = "s" -> StructValue(<<Num(1), ArrLit(Num(2), Num(3))>>, Struct1)
            [] id = "t" -> TupleValue(<<Num(1), ArrLit(Num(2), Num(3))>>, Tuple1)] }

SlotIndices == { U32Lit(0), U32Lit(1), U32Lit(5), UId("n") }
SlotRhs == { Num(7), FId("x"), FId("a"), Binary("Add", Num(3), Num(4), NoSpan) }
SlotArrayRhs ==
    { ArrLit(Num(7), Num(8)), ArrLit(FId("x"), Num(8)),
      ArrayValue(<<Spread(ArrLit(Num(7), Num(8)))>>, FieldType, U32Lit(2), NoSpan) }

SelectDefinitionPool ==
    { Definition(AssigneeSelect(ArrRoot, i), e) : i \in SlotIndices, e \in SlotRhs }
    \cup { Definition(AssigneeSelect(AssigneeSelect(MatrixRoot, i), j), e) :
             i \in {U32Lit(1), UId("n")}, j \in {U32Lit(0), U32Lit(5)}, e \in SlotRhs }
    \cup { Definition(AssigneeSelect(MatrixRoot, U32Lit(1)), e) : e \in SlotArrayRhs }
MemberDefinitionPool ==
    { Definition(AssigneeMember(StructRoot, "f"), e) : e \in SlotRhs }
    \cup { Definition(AssigneeSelect(AssigneeMember(StructRoot, "h"), i), e) :
             i \in {U32Lit(1), UId("n")}, e \in SlotRhs }
ElementDefinitionPool ==
    { Definition(AssigneeElement(TupleRoot, 0), e) : e \in SlotRhs }
    \cup { Definition(AssigneeSelect(AssigneeElement(TupleRoot, 1), i), e) :
             i \in {U32Lit(0), U32Lit(5)}, e \in SlotRhs }
    \cup { Definition(AssigneeElement(TupleRoot, 1), e) : e \in SlotArrayRhs }

\* embed calls on constant arguments, one of them an array with a spread
EmbedDefinitionPool ==
    { EmbedCallDefinition(AssigneeIdentifier(BitsVar(4)), "Unpack", <<4>>, <<e>>) :
        e \in {Num(9), FId("a"), FId("x")} }
    \cup { EmbedCallDefinition(AssigneeIdentifier(Variable("u", U8)), "U8FromBits", <<>>, <<e>>) :
        e \in { BooleanArray(<<FALSE, FALSE, FALSE, FALSE, FALSE, TRUE, FALSE, TRUE>>, 8),
                ArrayValue(<<Spread(BooleanArray(<<FALSE, FALSE, FALSE, FALSE,
                                                   FALSE, FALSE, TRUE, TRUE>>, 8))>>,
                           BooleanType, U32Lit(8), NoSpan) } }

InitSlot ==
    /\ constants \in SlotConstants
    /\ prog = <<>>
    /\ out = <<>>
    /\ err = NoErr
    /\ stmt = NoStmt
    /\ exprIn = NoneExpr
    /\ exprOut = Pending
    /\ calls = EmptyMap
    /\ idxMap = EmptyMap
    /\ idxCalls = <<>>
    /\ substitution = EmptyMap
    /\ dprog = <<>>
    /\ dout = <<>>
    /\ irProg = NoStmt
    /\ lowered = Pending
    /\ flatIn = NoStmt
    /\ flatOut = Pending

\* fold_statement(s) on the next statement
SlotStep(s) ==
    /\ err = NoErr
    /\ Len(prog) < MaxSlotStmts
    /\ LET r == FoldStatement(s, constants) IN
         /\ prog' = Append(prog, s)
         /\ stmt' = s
         /\ IF r.ok
            THEN /\ constants' = r.constants
                 /\ out' = out \o r.out
                 /\ err' = NoErr
            ELSE /\ err' = r.err
                 /\ UNCHANGED <<constants, out>>
    /\ UNCHANGED <<exprIn, exprOut, calls, substitution, dprog, dout>>
    /\ UNCHANGED <<irProg, lowered, flatIn, flatOut>>
    /\ UNCHANGED <<idxMap, idxCalls>>

FoldSelectDefinition == \E s \in SelectDefinitionPool : SlotStep(s)
FoldMemberDefinition == \E s \in MemberDefinitionPool : SlotStep(s)
FoldElementDefinition == \E s \in ElementDefinitionPool : SlotStep(s)
FoldEmbedDefinition == \E s \in EmbedDefinitionPool : SlotStep(s)

NextSlot ==
    \/ FoldSelectDefinition
    \/ FoldMemberDefinition
    \/ FoldElementDefinition
    \/ FoldEmbedDefinition

SpecSlot == InitSlot /\ [][NextSlot]_vars

\* the path of slot numbers an assignee addresses in a constant c of its
\* root, NoPath when a step is not a literal index in range
NoPath == <<0 - 1>>
RECURSIVE AddressedPath(_, _)
AddressedPath(a, c) ==
    IF a.k = "AssigneeIdentifier" THEN <<>>
    ELSE LET before == AddressedPath(a.assignee, c) IN
         IF before = NoPath THEN before
         ELSE CASE a.k = "AssigneeMember" ->
                      Append(before, MemberPosition(AssigneeType(a.assignee), a.member) - 1)
                [] a.k = "AssigneeElement" -> Append(before, a.element)
                [] a.k = "AssigneeSelect" ->
                      IF a.index.k = "UValue"
                         /\ a.index.value < Len(SlotAt(c, before).elems)
                      THEN Append(before, a.index.value)
                      ELSE NoPath

\* every path to a slot of constant c
RECURSIVE SlotPaths(_)
SlotPaths(c) ==
    {<<>>} \cup
    (IF c.k \in {"ArrayValue", "StructValue", "TupleValue"}
     THEN UNION { { <<i - 1>> \o q : q \in SlotPaths(c.elems[i]) } : i \in 1 .. Len(c.elems) }
     ELSE {})

IsPrefix(p, q) == Len(p) <= Len(q) /\ SubSeq(q, 1, Len(p)) = p

\* a step folds a well-typed Definition of a projection whose rhs folds to a
\* constant
ConstantProjectionDefinition ==
    /\ prog' # prog
    /\ stmt'.k = "Definition"
    /\ stmt'.assignee.k # "AssigneeIdentifier"
    /\ GivenAssignee.ok /\ GivenRhs.ok
    /\ AssigneeType(GivenAssignee.e) = GetType(GivenRhs.e)
    /\ IsConstant(GivenRhs.e)

\* C20: a Definition assigning a constant rhs to a projection of an
\* identifier bound in Constants, every step of the path resolvable, emits
\* nothing and replaces only the addressed sub-slot by the canonical rhs,
\* every other slot and entry unchanged; when a step is not resolvable the
\* root's entry is removed and the definition is emitted, preceded by
\* `root := c` when an entry c existed.
C20_ProjectionDefinition ==
    [][ConstantProjectionDefinition =>
          LET root == GivenRoot.id
              bound == root \in DOMAIN constants
              path == IF bound THEN AddressedPath(GivenAssignee.e, constants[root])
                      ELSE NoPath
              def == Definition(GivenAssignee.e, GivenRhs.e)
          IN /\ err' = NoErr
             /\ \A id \in DOMAIN constants \ {root} :
                   id \in DOMAIN constants' /\ constants'[id] = constants[id]
             /\ IF path # NoPath
                THEN /\ Emitted = <<>>
                     /\ DOMAIN constants' = DOMAIN constants
                     /\ SlotAt(constants'[root], path) = IntoCanonicalConstant(GivenRhs.e)
                     /\ \A q \in SlotPaths(constants[root]) :
                           (~IsPrefix(q, path) /\ ~IsPrefix(path, q)) =>
                               /\ q \in SlotPaths(constants'[root])
                               /\ SlotAt(constants'[root], q) = SlotAt(constants[root], q)
                     /\ \A q \in SlotPaths(constants[root]) :
                           (IsPrefix(q, path) /\ q # path) =>
                               Len(SlotAt(constants'[root], q).elems) =
                                   Len(SlotAt(constants[root], q).elems)
                ELSE /\ DOMAIN constants' = DOMAIN constants \ {root}
                     /\ Emitted = IF bound
                                  THEN <<Definition(AssigneeIdentifier(GivenRoot), constants[root]),
                                         def>>
                                  ELSE <<def>>]_vars

\* C20 witness: with m bound to [[1, 2], [3, 4]], `m[1][0] = 3 + 4` has been
\* folded to nothing and m is [[1, 2], [7, 4]]; then `m[n][0] = 7` has put m
\* back into the program.
C20_Witness ==
    /\ Len(prog) = 2
    /\ prog[1] = Definition(AssigneeSelect(AssigneeSelect(MatrixRoot, U32Lit(1)), U32Lit(0)),
                            Binary("Add", Num(3), Num(4), NoSpan))
    /\ prog[2] = Definition(AssigneeSelect(AssigneeSelect(MatrixRoot, UId("n")), U32Lit(0)),
                            Num(7))
    /\ err = NoErr
    /\ out = <<Definition(MatrixRoot,
                          ArrayValue(<<ArrLit(Num(1), Num(2)), ArrLit(Num(7), Num(4))>>,
                                     FieldArray2, U32Lit(2), NoSpan)),
               prog[2]>>
    /\ "m" \notin DOMAIN constants
    /\ "s" \in DOMAIN constants

(***************************************************************************)
(* C21: uint binary nodes whose operands are not both literals             *)
(***************************************************************************)
UintFolded == exprOut # Pending /\ exprIn.k \in UintBinaryKinds \cup UintShiftKinds
FoldedUintLeft == Fold(exprIn.left, constants)
FoldedUintRight == Fold(exprIn.right, constants)
IsLiteral(e, v) == IsUValue(e) /\ e.value = v

\* the identity and absorbing rules of the operator op on folded operands
UintRuleApplies(op, l, r) ==
    CASE op = "UAdd" -> IsLiteral(l, 0) \/ IsLiteral(r, 0)
      [] op \in {"USub", "UFloorSub"} -> IsLiteral(r, 0)
      [] op = "UMult" -> IsLiteral(l, 0) \/ IsLiteral(r, 0) \/ IsLiteral(l, 1) \/ IsLiteral(r, 1)
      [] op \in {"UDiv", "URem"} -> IsLiteral(r, 1)
      [] op = "UXor" -> IsLiteral(l, 0) \/ IsLiteral(r, 0) \/ l = r
      [] op = "UAnd" -> IsLiteral(l, 0) \/ IsLiteral(r, 0)
      [] OTHER -> FALSE

\* the same operand, up to the span of a literal
SameOperand(a, b) == IF IsUValue(a) /\ IsUValue(b) THEN a.value = b.value ELSE a = b

\* the case of the claim: operands not both literals, no rule applies
UintRebuildCase ==
    /\ UintFolded
    /\ FoldedUintLeft.ok /\ FoldedUintRight.ok
    /\ ~(IsUValue(FoldedUintLeft.e) /\ IsUValue(FoldedUintRight.e))
    /\ ~UintRuleApplies(exprIn.k, FoldedUintLeft.e, FoldedUintRight.e)

RebuiltOver(e, l, r) ==
    \/ SameOperand(e.left, l) /\ SameOperand(e.right, r)
    \/ SameOperand(e.left, r) /\ SameOperand(e.right, l)

\* C21: a uint binary node (+, -, floor_sub, *, /, %, <<, >>, ^, &) whose
\* folded operands are not both literals and to which no identity or
\* absorbing rule applies folds to a node with the same operator over the
\* folded operands; floor_sub of two non-constant operands stays floor_sub
C21_SameOperator ==
    UintRebuildCase =>
        /\ exprOut.ok
        /\ exprOut.e.k = exprIn.k
        /\ RebuiltOver(exprOut.e, FoldedUintLeft.e, FoldedUintRight.e)

\* the same property with floor_sub left out
C21_SameOperatorButFloorSub ==
    (UintRebuildCase /\ exprIn.k # "UFloorSub") =>
        /\ exprOut.ok
        /\ exprOut.e.k = exprIn.k
        /\ RebuiltOver(exprOut.e, FoldedUintLeft.e, FoldedUintRight.e)

(***************************************************************************)
(* C22: uint arithmetic on two literals                                    *)
(***************************************************************************)
UintArithmeticKinds ==
    {"UAdd", "USub", "UMult", "UDiv", "URem", "ULeftShift", "URightShift"}

\* an arithmetic node over two literals has been folded
LiteralArithmetic ==
    /\ exprOut # Pending
    /\ exprIn.k \in UintArithmeticKinds
    /\ IsUValue(exprIn.left) /\ IsUValue(exprIn.right)

\* the mathematical result reduced modulo 2^w; a quotient by zero has none
Reduced(op, a, b, w) ==
    CASE op = "UAdd" -> (a + b) % Pow2(w)
      [] op = "USub" -> (a - b) % Pow2(w)
      [] op = "UMult" -> (a * b) % Pow2(w)
      [] op = "UDiv" -> IF b = 0 THEN 0 - 1 ELSE (a \div b) % Pow2(w)
      [] op = "URem" -> IF b = 0 THEN 0 - 1 ELSE (a % b) % Pow2(w)
      [] op = "ULeftShift" -> IF b >= w THEN 0 ELSE (a * Pow2(b)) % Pow2(w)
      [] op = "URightShift" -> IF b >= w THEN 0 ELSE (a \div Pow2(b)) % Pow2(w)

LiteralResult ==
    /\ exprOut.ok
    /\ IsUValue(exprOut.e)
    /\ exprOut.e.value \in 0 .. Pow2(exprIn.bitwidth) - 1
    /\ exprOut.e.value =
          Reduced(exprIn.k, exprIn.left.value, exprIn.right.value, exprIn.bitwidth)

\* C22: folding a+b, a-b, a*b, a/b, a%b, a<<b, a>>b over literals a, b in
\* [0, 2^w), b = 0 and shift amounts b >= w included, returns the literal of
\* the mathematical result reduced modulo 2^w, a value in [0, 2^w)
C22_LiteralArithmetic == LiteralArithmetic => LiteralResult

\* the same property away from a zero divisor and from shifts by the width
\* of the u128 or more
C22_LiteralArithmeticDefined ==
    (/\ LiteralArithmetic
     /\ exprIn.k \in {"UDiv", "URem"} => exprIn.right.value # 0
     /\ exprIn.k \in UintShiftKinds => exprIn.right.value < U128Bits) => LiteralResult

(***************************************************************************)
(* The U{w}ToBits and U{w}FromBits embeds on constants: a literal is       *)
(* converted and the result, read back from Constants, is converted by the *)
(* inverse embed                                                           *)
(***************************************************************************)
ToBitsEmbed(w) == IF w = 8 THEN "U8ToBits" ELSE "U16ToBits"
FromBitsEmbed(w) == IF w = 8 THEN "U8FromBits" ELSE "U16FromBits"

\* the boolean array of the binary digits of v, most significant first
BitArrayOf(v, w) == BooleanArray([i \in 1 .. w |-> (v \div Pow2(w - i)) % 2 = 1], w)

BitsValues(w) ==
    IF w = 8 THEN 0 .. Pow2(8) - 1 ELSE {0, 1, 255, 256, 21845, 32768, 65535}

\* the round trips: from a uint literal or from a boolean array
BitsInputs ==
    { [k |-> "FromValue", w |-> w, arg |-> UValue(v, NoSpan, w)] :
        w \in {8}, v \in BitsValues(8) }
    \cup { [k |-> "FromValue", w |-> w, arg |-> UValue(v, NoSpan, w)] :
        w \in {16}, v \in BitsValues(16) }
    \cup { [k |-> "FromBits", w |-> w, arg |-> BitArrayOf(v, w)] : w \in {8}, v \in BitsValues(8) }
    \cup { [k |-> "FromBits", w |-> w, arg |-> BitArrayOf(v, w)] : w \in {16}, v \in BitsValues(16) }

InitBits ==
    /\ constants = EmptyMap
    /\ prog = <<>>
    /\ out = <<>>
    /\ err = NoErr
    /\ stmt = NoStmt
    /\ exprIn \in BitsInputs
    /\ exprOut = Pending
    /\ calls = EmptyMap
    /\ idxMap = EmptyMap
    /\ idxCalls = <<>>
    /\ substitution = EmptyMap
    /\ dprog = <<>>
    /\ dout = <<>>
    /\ irProg = NoStmt
    /\ lowered = Pending
    /\ flatIn = NoStmt
    /\ flatOut = Pending

\* fold_statement on the next statement s of the round trip
BitsStep(s) ==
    /\ err = NoErr
    /\ LET r == FoldStatement(s, constants) IN
         /\ prog' = Append(prog, s)
         /\ stmt' = s
         /\ IF r.ok
            THEN /\ constants' = r.constants
                 /\ out' = out \o r.out
                 /\ err' = NoErr
            ELSE /\ err' = r.err
                 /\ UNCHANGED <<constants, out>>
    /\ UNCHANGED <<exprIn, exprOut, calls, substitution, dprog, dout>>
    /\ UNCHANGED <<irProg, lowered, flatIn, flatOut>>
    /\ UNCHANGED <<idxMap, idxCalls>>

\* `b = U{w}ToBits(arg)`, arg the input literal or the identifier u
FoldUToBits ==
    /\ \/ exprIn.k = "FromValue" /\ Len(prog) = 0
       \/ exprIn.k = "FromBits" /\ Len(prog) = 1
    /\ BitsStep(EmbedCallDefinition(
            AssigneeIdentifier(Variable("b", ArrayType(BooleanType, exprIn.w))),
            ToBitsEmbed(exprIn.w), <<>>,
            <<IF Len(prog) = 0 THEN exprIn.arg
              ELSE Identifier("u", UintType(exprIn.w), NoSpan)>>))

\* `u = U{w}FromBits(arg)`, arg the input array or the identifier b
FoldUFromBits ==
    /\ \/ exprIn.k = "FromBits" /\ Len(prog) = 0
       \/ exprIn.k = "FromValue" /\ Len(prog) = 1
    /\ BitsStep(EmbedCallDefinition(
            AssigneeIdentifier(Variable("u", UintType(exprIn.w))),
            FromBitsEmbed(exprIn.w), <<>>,
            <<IF Len(prog) = 0 THEN exprIn.arg
              ELSE ArrayIdentifier("b", BooleanType, U32Lit(exprIn.w), NoSpan)>>))

NextBits ==
    \/ FoldUToBits
    \/ FoldUFromBits

SpecBits == InitBits /\ [][NextBits]_vars

(***************************************************************************)
(* C23: ToBits and FromBits on constants are inverse                       *)
(***************************************************************************)
\* bit i (from 0, most significant first) of v at width w
MsbFirstBit(v, i, w) == (v \div Pow2(w - i - 1)) % 2 = 1

BitsOfValue ==
    /\ exprIn.k = "FromValue"
    /\ "b" \in DOMAIN constants
RoundTripOfValue ==
    /\ exprIn.k = "FromValue"
    /\ Len(prog) = 2
RoundTripOfBits ==
    /\ exprIn.k = "FromBits"
    /\ Len(prog) = 2

\* C23: for a literal v in [0, 2^w), U{w}ToBits(v) folds to an array of
\* exactly w booleans, element 0 the most significant bit, and U{w}FromBits
\* of that array folds to v; conversely U{w}FromBits followed by U{w}ToBits
\* gives the original w-element boolean array back
C23_BitsRoundTrip ==
    /\ exprIn.k \in {"FromValue", "FromBits"} => err = NoErr /\ out = <<>>
    /\ BitsOfValue =>
          /\ constants["b"].k = "ArrayValue"
          /\ Len(constants["b"].elems) = exprIn.w
          /\ constants["b"].size.value = exprIn.w
          /\ \A i \in 0 .. exprIn.w - 1 :
                /\ constants["b"].elems[i + 1].k = "BValue"
                /\ constants["b"].elems[i + 1].bvalue
                     = MsbFirstBit(exprIn.arg.value, i, exprIn.w)
    /\ RoundTripOfValue =>
          /\ IsUValue(constants["u"])
          /\ constants["u"].value = exprIn.arg.value
          /\ constants["u"].bitwidth = exprIn.w
    /\ RoundTripOfBits => constants["b"] = exprIn.arg

\* both round trips have completed, on a value with bits of both kinds
C23_Witness ==
    /\ RoundTripOfValue
    /\ exprIn.arg.value = 21845
    /\ constants["u"].value = 21845
    /\ constants["b"].elems[1].bvalue = FALSE
    /\ constants["b"].elems[2].bvalue = TRUE

C23_WitnessOfBits ==
    /\ RoundTripOfBits
    /\ exprIn.w = 8
    /\ constants["u"].value = 128
    /\ constants["b"] = exprIn.arg

(***************************************************************************)
(* C24: the shapes is_linear accepts                                       *)
(***************************************************************************)
IsLinearCalled == flatOut.ok /\ flatOut.op = "is_linear"

\* the operand pairs Number x Number, Number x Identifier, Identifier x Number
LinearMultShape(e) ==
    <<e.left.k, e.right.k>> \in
        {<<"Number", "Number">>, <<"Number", "Identifier">>, <<"Identifier", "Number">>}

\* C24: is_linear is true on Number and Identifier, true on Add and Sub
\* exactly when both operands are linear, and true on Mult exactly when the
\* operands are Number x Number, Number x Identifier or Identifier x Number;
\* a Number times a linear sum is not linear
C24_IsLinearShapes ==
    IsLinearCalled =>
        /\ flatIn.e.k \in {"Number", "Identifier"} => flatOut.linear
        /\ flatIn.e.k \in {"Add", "Sub"} =>
              (flatOut.linear <=> (IsLinear(flatIn.e.left) /\ IsLinear(flatIn.e.right)))
        /\ flatIn.e.k = "Mult" => (flatOut.linear <=> LinearMultShape(flatIn.e))
        /\ (/\ flatIn.e.k = "Mult"
            /\ flatIn.e.left.k = "Number"
            /\ flatIn.e.right.k \in {"Add", "Sub"}
            /\ IsLinear(flatIn.e.right)) => ~flatOut.linear

\* is_linear has rejected a Number times a linear sum
C24_Witness ==
    /\ IsLinearCalled
    /\ flatIn.e.k = "Mult"
    /\ flatIn.e.left.k = "Number"
    /\ flatIn.e.right.k = "Add"
    /\ IsLinear(flatIn.e.right)
    /\ ~flatOut.linear

(***************************************************************************)
(* C25: the substitution of the directive optimiser                        *)
(***************************************************************************)
Range(f) == { f[x] : x \in DOMAIN f }
SeqRange(seq) == { seq[i] : i \in 1 .. Len(seq) }

\* the keys a step adds to the substitution were not keys before
InsertedOnce ==
    LET s == dprog'[Len(dprog')] IN
    /\ \A k \in DOMAIN substitution :
          k \in DOMAIN substitution' /\ substitution'[k] = substitution[k]
    /\ (s.k = "Directive" /\ RewrittenKey(s, substitution) \in DOMAIN calls) =>
          /\ \A o \in SeqRange(FoldDirective(s, substitution).outputs) :
                o \notin DOMAIN substitution
          /\ \A i, j \in 1 .. Len(s.outputs) : i # j => s.outputs[i] # s.outputs[j]

\* no key is a value or an output of an emitted directive, so one lookup
\* resolves a variable
Resolved(sub, emitted) ==
    /\ DOMAIN sub \cap Range(sub) = {}
    /\ DOMAIN sub \cap SeqRange(DirectiveOutputs(emitted)) = {}
    /\ \A v \in IrVariables : FoldVariable(FoldVariable(v, sub), sub) = FoldVariable(v, sub)

\* C25: on a statement sequence in which each variable is an output of at
\* most one directive, a step inserts a variable into the substitution at
\* most once, and no key of the substitution is a value of it or an output
\* of an emitted directive: one lookup in fold_variable resolves a reference
C25_SubstitutionResolved ==
    [][(dprog' # dprog /\ SingleAssignment(dprog')) =>
          InsertedOnce /\ Resolved(substitution', dout')]_vars

\* two duplicates of an emitted directive have been elided and a later
\* statement over their outputs folded
C25_Witness ==
    /\ Len(dprog) = MaxIrStmts
    /\ SingleAssignment(dprog)
    /\ Cardinality(DOMAIN substitution) >= 2
    /\ Len(dout) = 1

\* the same property on every statement sequence
C25_AnySequence ==
    [][dprog' # dprog => InsertedOnce /\ Resolved(substitution', dout')]_vars

(***************************************************************************)
(* C26: the columns and rows r1cs_program gives the constraints            *)
(***************************************************************************)
R1csLowered == lowered.ok /\ lowered.op = "r1cs_program"
ConstraintStatements == SelectSeq(irProg.statements, LAMBDA s : s.k = "Constraint")

\* the variables of the Constraint statements in scanning order: program
\* order and, within a statement, quad.left, quad.right, lin
RECURSIVE ScanOrder(_)
ScanOrder(rows) ==
    IF rows = <<>> THEN <<>>
    ELSE LinCombVariables(Head(rows).quad.left) \o LinCombVariables(Head(rows).quad.right)
         \o LinCombVariables(Head(rows).lin) \o ScanOrder(Tail(rows))

\* the first occurrences in seq of the elements outside seen, in order
RECURSIVE FirstOccurrences(_, _)
FirstOccurrences(seq, seen) ==
    IF seq = <<>> THEN <<>>
    ELSE IF Head(seq) \in seen THEN FirstOccurrences(Tail(seq), seen)
    ELSE <<Head(seq)>> \o FirstOccurrences(Tail(seq), seen \cup {Head(seq)})

\* row is lin with every variable replaced by its column
ColumnsOf(row, lin) ==
    /\ Len(row) = Len(lin)
    /\ \A j \in 1 .. Len(lin) :
          /\ row[j][1] \in 0 .. Len(lowered.r.variables) - 1
          /\ lowered.r.variables[row[j][1] + 1] = lin[j][1]
          /\ row[j][2] = lin[j][2]

\* C26: the variables outside the public prefix get the next free columns
\* in order of first occurrence, scanning the Constraint statements in
\* program order and in each quad.left, quad.right, lin; Directive
\* statements give neither columns nor rows; the i-th triple is the i-th
\* Constraint statement with each variable replaced by its column and each
\* coefficient unchanged
C26_ConstraintColumns ==
    R1csLowered =>
        LET variables == lowered.r.variables
            count == lowered.r.public_variables_count
            prefix == { variables[i] : i \in 1 .. count }
        IN /\ SubSeq(variables, count + 1, Len(variables))
                = FirstOccurrences(ScanOrder(ConstraintStatements), prefix)
           /\ Len(lowered.r.constraints) = Len(ConstraintStatements)
           /\ \A i \in 1 .. Len(ConstraintStatements) :
                 /\ ColumnsOf(lowered.r.constraints[i][1], ConstraintStatements[i].quad.left)
                 /\ ColumnsOf(lowered.r.constraints[i][2], ConstraintStatements[i].quad.right)
                 /\ ColumnsOf(lowered.r.constraints[i][3], ConstraintStatements[i].lin)

\* a directive over a variable of its own followed by a constraint with
\* private variables has been lowered to one row
C26_Witness ==
    /\ R1csLowered
    /\ Len(irProg.statements) = 2
    /\ irProg.statements[1].k = "Directive"
    /\ irProg.statements[2].k = "Constraint"
    /\ Len(lowered.r.constraints) = 1
    /\ Len(lowered.r.variables) > lowered.r.public_variables_count
    /\ \A i \in 1 .. Len(lowered.r.variables) : lowered.r.variables[i] # 5

(***************************************************************************)
(* r1cs_program call by call: each provide_variable_idx call is a step,    *)
(* then the rows are built and the map is drained into variables_list      *)
(***************************************************************************)
MaxColumns == 5

\* the variables r1cs_program passes to provide_variable_idx, in order
ProvideCalls(p) ==
    <<VariableOne>> \o PublicArguments(p.arguments) \o Returns(p)
    \o ConstraintVariables(p.statements)

\* the programs of the pool with at most MaxColumns variables
ProvidePool ==
    { p \in IrProgPool :
        Cardinality({ ProvideCalls(p)[i] : i \in 1 .. Len(ProvideCalls(p)) }) <= MaxColumns }

\* the orders in which HashMap::drain may yield the keys
RECURSIVE DrainOrders(_)
DrainOrders(keys) ==
    IF keys = {} THEN {<<>>}
    ELSE UNION { { <<k>> \o order : order \in DrainOrders(keys \ {k}) } : k \in keys }

\* `for (k, v) in variables.drain() { assert_eq!(variables_list[v],
\* Variable::new(0)); variables_list[v] = k; }` over the keys in order
RECURSIVE Drain(_, _, _)
Drain(variables_list, variables, order) ==
    IF order = <<>> THEN Ok(variables_list)
    ELSE LET k == Head(order)
             v == variables[k]
         IN IF v >= Len(variables_list) THEN Panic
            ELSE IF variables_list[v + 1] # VariableNew(0) THEN Panic
            ELSE Drain([variables_list EXCEPT ![v + 1] = k], variables, Tail(order))

\* r1cs_program from its second pass on, given the map the provide calls
\* built and the order of the drain
R1csProgramFrom(p, variables, order) ==
    LET private_inputs_offset ==
            Cardinality(DOMAIN ProvideAll(EmptyMap, <<VariableOne>>
                            \o PublicArguments(p.arguments) \o Returns(p)))
        rows == SelectSeq(p.statements, LAMBDA s : s.k = "Constraint")
        constraints == [i \in 1 .. Len(rows) |->
                          <<SparseRow(rows[i].quad.left, variables),
                            SparseRow(rows[i].quad.right, variables),
                            SparseRow(rows[i].lin, variables)>>]
        variables_list ==
            Drain([i \in 1 .. Cardinality(DOMAIN variables) |-> VariableNew(0)],
                  variables, order)
    IN IF ~variables_list.ok THEN variables_list
       ELSE [ok |-> TRUE, op |-> "r1cs_program",
             r |-> [variables |-> variables_list.e,
                    public_variables_count |-> private_inputs_offset,
                    constraints |-> constraints]]

InitProvide ==
    /\ irProg \in ProvidePool
    /\ idxMap = EmptyMap
    /\ idxCalls = <<>>
    /\ lowered = Pending
    /\ flatIn = NoStmt
    /\ flatOut = Pending
    /\ calls = EmptyMap
    /\ substitution = EmptyMap
    /\ dprog = <<>>
    /\ dout = <<>>
    /\ constants = EmptyMap
    /\ prog = <<>>
    /\ out = <<>>
    /\ err = NoErr
    /\ stmt = NoStmt
    /\ exprIn = NoneExpr
    /\ exprOut = Pending

\* the next provide_variable_idx call of r1cs_program
CallProvideVariableIdx ==
    /\ Len(idxCalls) < Len(ProvideCalls(irProg))
    /\ LET var == ProvideCalls(irProg)[Len(idxCalls) + 1]
           after == ProvideVariableIdx(idxMap, var)
       IN /\ idxMap' = after
          /\ idxCalls' = Append(idxCalls, [var |-> var, index |-> after[var]])
    /\ UNCHANGED <<constants, prog, out, err, stmt, exprIn, exprOut>>
    /\ UNCHANGED <<calls, substitution, dprog, dout, irProg, lowered, flatIn, flatOut>>

\* the second pass and the drain, in whichever order the map yields its keys
BuildVariablesList ==
    /\ Len(idxCalls) = Len(ProvideCalls(irProg))
    /\ lowered = Pending
    /\ \E order \in DrainOrders(DOMAIN idxMap) :
         lowered' = R1csProgramFrom(irProg, idxMap, order)
    /\ UNCHANGED <<constants, prog, out, err, stmt, exprIn, exprOut>>
    /\ UNCHANGED <<calls, substitution, dprog, dout, irProg, flatIn, flatOut>>
    /\ UNCHANGED <<idxMap, idxCalls>>

NextProvide ==
    \/ CallProvideVariableIdx
    \/ BuildVariablesList

SpecProvide == InitProvide /\ [][NextProvide]_vars

(***************************************************************************)
(* C30: the variable-to-index map is a bijection onto 0 .. len - 1         *)
(***************************************************************************)
Bijection(variables) ==
    /\ \A k \in DOMAIN variables : variables[k] \in 0 .. Cardinality(DOMAIN variables) - 1
    /\ \A k1, k2 \in DOMAIN variables : variables[k1] = variables[k2] => k1 = k2

\* what the call just made returned and did to the map
ProvidedAsClaimed ==
    LET call == idxCalls'[Len(idxCalls')] IN
    /\ call.var \in DOMAIN idxMap => call.index = idxMap[call.var] /\ idxMap' = idxMap
    /\ call.var \notin DOMAIN idxMap =>
          /\ call.index = Cardinality(DOMAIN idxMap)
          /\ DOMAIN idxMap' = DOMAIN idxMap \cup {call.var}
          /\ idxMap'[call.var] = call.index
          /\ \A k \in DOMAIN idxMap : idxMap'[k] = idxMap[k]
    /\ Bijection(idxMap')

\* the drain met no slot written before, and the list and the rows agree
\* with the map
ListAsClaimed ==
    /\ lowered'.ok
    /\ Len(lowered'.r.variables) = Cardinality(DOMAIN idxMap)
    /\ \A k \in DOMAIN idxMap : lowered'.r.variables[idxMap[k] + 1] = k
    /\ \A i \in 1 .. Len(lowered'.r.constraints) :
          \A m \in 1 .. 3 :
              \A j \in 1 .. Len(lowered'.r.constraints[i][m]) :
                  lowered'.r.constraints[i][m][j][1] \in 0 .. Len(lowered'.r.variables) - 1

\* C30: after any sequence of provide_variable_idx calls the map is a
\* bijection onto 0 .. len - 1: a call with a known variable returns its
\* index and leaves the map unchanged, a call with a new variable returns
\* the previous len; so in r1cs_program the assertion on the slots of
\* variables_list never fails, every column index of a row is below
\* variables.len(), and variables[idx] is the variable given index idx
C30_IndexBijection ==
    [][/\ idxCalls' # idxCalls => ProvidedAsClaimed
       /\ lowered' # lowered => ListAsClaimed]_vars

\* a known variable has been provided again, and the list has been built
\* for a map that holds Variable::new(0) itself
C30_Witness ==
    /\ lowered.ok
    /\ \E i, j \in 1 .. Len(idxCalls) : i < j /\ idxCalls[i] = idxCalls[j]
    /\ VariableNew(0) \in DOMAIN idxMap
    /\ Cardinality(DOMAIN idxMap) = MaxColumns
    /\ Len(lowered.r.constraints) >= 1

(***************************************************************************)
(* C27: spans and folding                                                  *)
(***************************************************************************)
\* e with the span of every node set to None
RECURSIVE StripSpans(_)
StripSpans(e) ==
    [f \in DOMAIN e |->
        IF f = "span" THEN NoSpan
        ELSE IF f = "elems" THEN [i \in 1 .. Len(e[f]) |-> StripSpans(e[f][i])]
        ELSE IF f \in {"left", "right", "inner", "condition", "consequence",
                       "alternative", "array", "index", "size"}
                /\ "k" \in DOMAIN e[f]
        THEN StripSpans(e[f])
        ELSE e[f]]

\* two results of a fold: errors of the same kind and payload, or
\* expressions that differ only in spans
SameUpToSpans(r1, r2) ==
    IF r1.ok /\ r2.ok THEN StripSpans(r1.e) = StripSpans(r2.e)
    ELSE ~r1.ok /\ ~r2.ok /\ r1.err = r2.err

\* an expression carrying a span has been folded by fold_expression
SpannedFolded ==
    /\ exprOut # Pending
    /\ exprIn.k \notin UintShiftKinds
    /\ StripSpans(exprIn) # exprIn

\* C27: spans do not influence folding: an expression and the same
\* expression with other spans fold to errors of the same kind and payload
\* or to expressions that differ only in spans
C27_SpansIgnored ==
    SpannedFolded => SameUpToSpans(exprOut, Fold(StripSpans(exprIn), constants))

(***************************************************************************)
(* C28: what Constants holds                                               *)
(***************************************************************************)
\* e is a literal, or a value whose slots are canonical constants and no
\* spreads
RECURSIVE CanonicalConstant(_)
CanonicalConstant(e) ==
    \/ e.k \in {"Number", "UValue", "BValue"}
    \/ /\ e.k \in {"ArrayValue", "StructValue", "TupleValue"}
       /\ \A i \in 1 .. Len(e.elems) :
             e.elems[i].k # "Spread" /\ CanonicalConstant(e.elems[i])

\* C28: at every point of a propagation every expression stored in
\* Constants is constant and canonical (no identifier, no non-literal node,
\* no spread), after sub-slot overwrites and after entries inserted by
\* constant-folded embed calls too
C28_ConstantsCanonical ==
    \A id \in DOMAIN constants : CanonicalConstant(constants[id])

\* an embed call on an array with a spread has inserted u, then a row of m
\* has been overwritten by an array with a spread
C28_Witness ==
    /\ Len(prog) = 2
    /\ err = NoErr
    /\ out = <<>>
    /\ prog[1].k = "EmbedCallDefinition"
    /\ prog[1].embed = "U8FromBits"
    /\ prog[1].arguments[1].elems[1].k = "Spread"
    /\ "u" \in DOMAIN constants
    /\ prog[2].k = "Definition"
    /\ prog[2].assignee.k = "AssigneeSelect"
    /\ prog[2].rhs.k = "ArrayValue"
    /\ prog[2].rhs.elems[1].k = "Spread"
    /\ constants["m"].elems[2] = ArrLit(Num(7), Num(8))

(***************************************************************************)
(* C29: emitted statements and the identifiers bound in Constants          *)
(***************************************************************************)
\* C29: no statement a step emits reads an identifier bound in Constants
\* when it is emitted: a read of an identifier whose definition was elided
\* is replaced by the constant or comes after the flushed definition; this
\* for every statement kind, the body of a For statement included
C29_NoBoundRead ==
    [][prog' # prog =>
          \A i \in 1 .. Len(Emitted) :
              StatementReads(Emitted[i]) \cap DOMAIN constants' = {}]_vars

\* the same property on the reads the propagator folds: the bounds of a For
\* statement, not its body
C29_NoBoundReadWhereFolded ==
    [][prog' # prog =>
          \A i \in 1 .. Len(Emitted) :
              FoldedReads(Emitted[i]) \cap DOMAIN constants' = {}]_vars
====
